---- MODULE Spec2Model ----
(***************************************************************************)
(* Verification model of the eks-hybrid e2e cleanup subsystem:             *)
(*   - the tag filter policy (shouldDeleteResource / resourceOldEnough),   *)
(*   - the Sweeper (SSM managed instances, then SSM activations),          *)
(*   - the VPC teardown (DeleteVPCs and its five steps).                   *)
(* Strings that the code inspects (cluster names, prefixes, tag values)    *)
(* are sequences of characters; times and durations are integers on one   *)
(* scaled axis whose origin 0 is Go's zero time.Time.                      *)
(***************************************************************************)
EXTENDS Integers, Sequences, FiniteSets, TLC

VARIABLES
    fResource,      \* filter policy: the ResourceWithTags under evaluation
    fInput,         \* filter policy: the FilterInput of the evaluation
    fPc,            \* filter policy: "start" | "prechecked" | "decided"
    fOldEnough,     \* filter policy: result of resourceOldEnough ("none" before the call)
    fShouldDelete,  \* filter policy: result of shouldDeleteResource ("none" before the call)
    sInput,         \* sweeper: the FilterInput that Run builds from its SweeperInput
    sInstances,     \* sweeper: id -> InstanceInformation with its tags, as first registered
    sActivations,   \* sweeper: id -> Activation with its tags, as first created
    sRegistered,    \* sweeper: ids of the managed instances registered in SSM now
    sActive,        \* sweeper: ids of the activations existing in SSM now
    sPc,            \* sweeper: position of Run
    sTagMap,        \* sweeper: instanceIDToTags of ListManagedInstances
    sPage,          \* sweeper: pages the current paginator has returned
    sIds,           \* sweeper: the id list being built, then being deleted
    sIdx,           \* sweeper: position of the delete loop in sIds
    sLog,           \* sweeper: the API calls issued so far, in order
    sErr,           \* sweeper: the error Run returned (<< >> is nil)
    vVpcIDs,        \* VPC teardown: the vpcIDs argument of DeleteVPCs
    vIgw,           \* EC2: vpc -> internet gateway -> "attached" | "detached" | "deleted"
    vSubnet,        \* EC2: vpc -> the subnets of the VPC
    vRt,            \* EC2: vpc -> the route tables of the VPC (MainID is the main one)
    vRtAssoc,       \* EC2: vpc -> route table -> its association ids
    vSg,            \* EC2: vpc -> the security groups of the VPC (DefaultID is "default")
    vSgIn,          \* EC2: vpc -> the security groups that have ingress rules
    vSgOut,         \* EC2: vpc -> the security groups that have egress rules
    vVpc,           \* EC2: vpc -> whether the VPC exists
    vPc,            \* VPC teardown: "describe_main" | "describe" | "calls" | "done"
    vIdx,           \* VPC teardown: position of the loop over vpcIDs
    vStep,          \* VPC teardown: the step (1..5) of the current VPC
    vMainId,        \* VPC teardown: mainRouteTableID of deleteRouteTables
    vPlan,          \* VPC teardown: the calls the loops of the step make for its describe response
    vItem,          \* VPC teardown: position in vPlan
    vLog,           \* VPC teardown: the EC2 calls issued so far, with their outcome
    vErr,           \* VPC teardown: the error DeleteVPCs returned (<< >> is nil)
    vRun,           \* VPC teardown: which invocation of DeleteVPCs this is
    dKind,          \* deletes: the Delete<X> function the runs call, for one resource id
    dExists,        \* service: whether the resource exists
    dProfiles,      \* IAM: the instance profiles the role is in
    dPc,            \* deletes: run -> position in Delete<X>
    dList,          \* deletes: run -> the instance profiles ListInstanceProfilesForRole returned
    dPos,           \* deletes: run -> position of the loop over dList
    dErr,           \* deletes: run -> the error Delete<X> returned (<< >> is nil)
    dLog,           \* deletes: the API calls issued so far, with their response
    dOverlap,       \* deletes: whether a run started while another was in progress
    lKind,          \* listing: the bulk List function that runs
    lInput,         \* listing: its FilterInput
    lResources,     \* service: candidate id -> whether it exists, its tags, its name check
    lOrder,         \* listing: the candidates in the order the loop visits them
    lPc,            \* listing: "tagging" | "get" | "done"
    lPos,           \* listing: position of the loop in lOrder
    lOut,           \* listing: the ids collected, then returned
    lErr,           \* listing: the error returned (<< >> is nil)
    lLog,           \* listing: the API calls issued so far, with their response
    cFile,          \* certificate check: the file at certPath
    cCA,            \* certificate check: the PEM blocks of node.Spec.Cluster.CertificateAuthority
    cPc,            \* certificate check: position of Run
    cRemediationErr,\* certificate check: the variable remedationErr
    cRet,           \* certificate check: the error Run returned (<< >> is nil)
    cLog,           \* certificate check: the calls made to the informer
    kFlakeAttempts, \* FlakyCode.It: the argument flakeAttempts
    kHandlerPanics, \* FlakyCode.It: whether f.FailHandler panics as ginkgo.Fail does
    kAttempt,       \* FlakyCode.It: the loop variable attempt
    kPc,            \* FlakyCode.It: position of It and of the body's goroutine
    kPanic,         \* FlakyCode.It: the value the goroutine is panicking with
    kRetryableError,\* FlakyCode.It: retry.retryableError is set
    kPanicableError,\* FlakyCode.It: retry.panicableError is set
    kRegistered,    \* FlakyCode.It: length of cleanups
    kPos,           \* FlakyCode.It: position of the backward loop over cleanups
    kRan,           \* FlakyCode.It: the cleanups whose ran flag is set
    kGlobal,        \* FlakyCode.It: what was registered with ginkgo's DeferCleanup
    kHandlerCalls,  \* FlakyCode.It: calls of f.FailHandler in this attempt
    kTestFailed,    \* FlakyCode.It: ginkgo has stored a failure for the test
    kLog,           \* FlakyCode.It: what happened, in order
    tCleanups,      \* TestCleanup: the field cleanups (functions by number)
    tDeferred,      \* TestCleanup: closures the current spec registered with ginkgo's DeferCleanup
    tOwner,         \* TestCleanup: for each function registered so far, the spec that registered it
    tOutcome,       \* TestCleanup: for each finished spec, whether it failed
    tSpec,          \* TestCleanup: the running spec
    tPc,            \* TestCleanup: position of the suite
    tPos,           \* TestCleanup: the loop variable i of DeferAll's closure, counted from 1
    tLog,           \* TestCleanup: the functions executed, in order, each with the spec after which it ran (0 for DeferAll)
    pKind,          \* polling wait: which of the wait functions runs
    pInvocation,    \* polling wait: number of the invocation
    pPc,            \* polling wait: position of the invocation
    pConsecutiveErrors,\* polling wait: the local consecutiveErrors
    pPolls,         \* polling wait: condition calls made by PollUntilContextTimeout in this invocation
    pTrailingFailures,\* polling wait: API calls that returned an error since the last one that returned none (history)
    pErr,           \* polling wait: the error the invocation returned
    uMain,          \* waitForManagedInstanceUnregistered: position of the function
    uGo,            \* waitForManagedInstanceUnregistered: position of the polling goroutine
    uCtx,           \* waitForManagedInstanceUnregistered: state of the context with the 3-minute timeout
    uConsecutiveErrors,\* waitForManagedInstanceUnregistered: the variable consecutiveErrors
    uCalls,         \* waitForManagedInstanceUnregistered: describe calls made
    uSawEmpty,      \* waitForManagedInstanceUnregistered: a describe call returned an empty list (history)
    uRet,           \* waitForManagedInstanceUnregistered: the error returned (<< >> is nil)
    nOS,            \* CleanNode.Run: u.OS.Name() as family, dash, architecture
    nPc,            \* CleanNode.Run: the step Run is at
    nLog,           \* CleanNode.Run: the steps executed, each with its outcome
    nRet,           \* CleanNode.Run: the error returned (<< >> is nil)
    eArn,           \* extractClusterName: the argument stackARN, a sequence of characters
    ePc,            \* extractClusterName: position in the function, or returned / panicked
    eParts,         \* extractClusterName: the local parts
    eRet            \* extractClusterName: the string returned

filterVars == <<fResource, fInput, fPc, fOldEnough, fShouldDelete>>
sweeperVars == <<sInput, sInstances, sActivations, sRegistered, sActive, sPc,
                 sTagMap, sPage, sIds, sIdx, sLog, sErr>>

vpcCloudVars == <<vIgw, vSubnet, vRt, vRtAssoc, vSg, vSgIn, vSgOut, vVpc>>
vpcVars == <<vVpcIDs, vpcCloudVars, vPc, vIdx, vStep, vMainId, vPlan, vItem, vLog, vErr,
             vRun>>

deleteVars == <<dKind, dExists, dProfiles, dPc, dList, dPos, dErr, dLog, dOverlap>>

listVars == <<lKind, lInput, lResources, lOrder, lPc, lPos, lOut, lErr, lLog>>

certVars == <<cFile, cCA, cPc, cRemediationErr, cRet, cLog>>

flakyVars == <<kFlakeAttempts, kHandlerPanics, kAttempt, kPc, kPanic, kRetryableError, kPanicableError, kRegistered, kPos, kRan, kGlobal, kHandlerCalls, kTestFailed, kLog>>

testCleanupVars == <<tCleanups, tDeferred, tOwner, tOutcome, tSpec, tPc, tPos, tLog>>

pollVars == <<pKind, pInvocation, pPc, pConsecutiveErrors, pPolls, pTrailingFailures, pErr>>

unregisterVars == <<uMain, uGo, uCtx, uConsecutiveErrors, uCalls, uSawEmpty, uRet>>

cleanNodeVars == <<nOS, nPc, nLog, nRet>>

extractVars == <<eArn, ePc, eParts, eRet>>

vars == <<filterVars, sweeperVars, vpcVars, deleteVars, listVars, certVars, flakyVars, testCleanupVars, pollVars, unregisterVars, cleanNodeVars, extractVars>>

(***************************************************************************)
(* Bounds.                                                                 *)
(***************************************************************************)
\* Longest tag list of a resource.
MaxTags == 2
\* Largest value of a time.Duration on the scaled axis (math.MaxInt64 ns in Go).
MaxDuration == 2
\* Managed instances and activations in the account when the sweeper starts.
NumInstances == 2
NumActivations == 1
\* Items the service returns per page of a paginated describe call.
PageSize == 1
\* VPCs in the account (DeleteVPCs is given any leading part of them).
NumVpcs == 2
\* Internet gateways, subnets, further route tables (and associations of each)
\* and further security groups a VPC may hold.
MaxPerStep == 1
\* Invocations of DeleteVPCs with the same vpcIDs, one after the other.
MaxRuns == 2
\* Cleanup runs that call Delete<X> for the same resource id.
NumRuns == 2
\* Instance profiles an IAM role is in.
MaxInstanceProfiles == 2
\* Candidates the tagging API returns to a bulk listing.
NumCandidates == 2

(***************************************************************************)
(* Strings.                                                                *)
(***************************************************************************)
EmptyStr == << >>
\* "", "c", "c1", "p": an empty string, a string, an extension of it, an unrelated one.
Strs == { << >>, <<"c">>, <<"c", "1">>, <<"p">> }

\* strings.HasPrefix
HasPrefix(s, prefix) ==
    /\ Len(prefix) <= Len(s)
    /\ SubSeq(s, 1, Len(prefix)) = prefix

(***************************************************************************)
(* Time.                                                                   *)
(***************************************************************************)
\* time.Time{}: the zero time, the creation time of a resource that exposes none.
ZeroTime == 0
\* The wall clock when the filter runs: further from the zero time than the
\* largest Duration (true of every date after the year 293).
Now == MaxDuration + 2
\* Creation times a resource may carry: the zero time up to just after Now.
Times == ZeroTime .. (Now + 1)
\* InstanceAgeThreshold is a signed time.Duration.
Durations == (0 - 1) .. MaxDuration

\* Mutant: a zero creation time is taken for "created now".
Since_ZeroIsNow(t) ==
    IF t = ZeroTime THEN 0
    ELSE IF Now - t > MaxDuration THEN MaxDuration
    ELSE Now - t

\* time.Since(t) = time.Now().Sub(t): the difference, saturated to the range of
\* a Duration.
Since(t) ==
    LET d == Now - t
    IN  IF d > MaxDuration THEN MaxDuration
        ELSE IF d < 0 - MaxDuration - 1 THEN 0 - MaxDuration - 1
        ELSE d

(***************************************************************************)
(* Tags and the filter policy.                                             *)
(***************************************************************************)
TestClusterTagKey == "Nodeadm-E2E-Tests-Cluster"
OtherTagKey == "Name"
TagKeys == {TestClusterTagKey, OtherTagKey}

Tag == [Key : TagKeys, Value : Strs]

\* All sequences over S of length at most n.
SeqsUpTo(S, n) == UNION { [1..k -> S] : k \in 0..n }

TagLists == SeqsUpTo(Tag, MaxTags)

ResourceWithTags == [CreationTime : Times, Tags : TagLists]

FilterInput ==
    [ClusterName : Strs, ClusterNamePrefix : Strs,
     AllClusters : BOOLEAN, InstanceAgeThreshold : Durations]

\* The value of the first tag whose key is the cluster tag key, "" when none.
getClusterTagValue(tags) ==
    LET hits == { i \in 1..Len(tags) : tags[i].Key = TestClusterTagKey }
    IN  IF hits = {} THEN EmptyStr
        ELSE tags[CHOOSE i \in hits : \A j \in hits : i <= j].Value

\* Mutant: the age comparison is not strict.
resourceOldEnough_NonStrict(creationTime, input) ==
    IF input.ClusterName # EmptyStr THEN TRUE
    ELSE Since(creationTime) >= input.InstanceAgeThreshold

\* Mutant: the exact-name shortcut is missing.
resourceOldEnough_NoExactMode(creationTime, input) ==
    Since(creationTime) > input.InstanceAgeThreshold

resourceOldEnough(creationTime, input) ==
    IF input.ClusterName # EmptyStr THEN TRUE
    ELSE Since(creationTime) > input.InstanceAgeThreshold

\* Mutant: the guard on a missing or empty cluster tag is dropped.
shouldDeleteResource_NoTagGuard(resource, input) ==
    LET clusterTagValue == getClusterTagValue(resource.Tags)
    IN  IF input.ClusterName # EmptyStr
        THEN clusterTagValue = input.ClusterName
        ELSE IF \/ input.AllClusters
                \/ /\ input.ClusterNamePrefix # EmptyStr
                   /\ HasPrefix(clusterTagValue, input.ClusterNamePrefix)
             THEN resourceOldEnough(resource.CreationTime, input)
        ELSE FALSE

\* Mutant: the age is also checked in exact-name mode.
shouldDeleteResource_AgeInExactMode(resource, input) ==
    LET clusterTagValue == getClusterTagValue(resource.Tags)
    IN  IF clusterTagValue = EmptyStr THEN FALSE
        ELSE IF input.ClusterName # EmptyStr
             THEN /\ clusterTagValue = input.ClusterName
                  /\ Since(resource.CreationTime) > input.InstanceAgeThreshold
        ELSE IF \/ input.AllClusters
                \/ /\ input.ClusterNamePrefix # EmptyStr
                   /\ HasPrefix(clusterTagValue, input.ClusterNamePrefix)
             THEN resourceOldEnough(resource.CreationTime, input)
        ELSE FALSE

shouldDeleteResource(resource, input) ==
    LET clusterTagValue == getClusterTagValue(resource.Tags)
    IN  IF clusterTagValue = EmptyStr THEN FALSE
        ELSE IF input.ClusterName # EmptyStr
             THEN clusterTagValue = input.ClusterName
        ELSE IF \/ input.AllClusters
                \/ /\ input.ClusterNamePrefix # EmptyStr
                   /\ HasPrefix(clusterTagValue, input.ClusterNamePrefix)
             THEN resourceOldEnough(resource.CreationTime, input)
        ELSE FALSE

(***************************************************************************)
(* Filter policy specification: every resource and every filter input, the *)
(* age pre-check first and the authoritative decision second, as a lister  *)
(* that fetches tags separately calls them.                                *)
(***************************************************************************)
FilterIdle ==
    /\ fResource = [CreationTime |-> ZeroTime, Tags |-> << >>]
    /\ fInput = [ClusterName |-> EmptyStr, ClusterNamePrefix |-> EmptyStr,
                 AllClusters |-> FALSE, InstanceAgeThreshold |-> 0]
    /\ fPc = "idle"
    /\ fOldEnough = "none"
    /\ fShouldDelete = "none"

SweeperIdle ==
    /\ sInput = [ClusterName |-> EmptyStr, ClusterNamePrefix |-> EmptyStr,
                 AllClusters |-> FALSE, InstanceAgeThreshold |-> 0, DryRun |-> TRUE]
    /\ sInstances = << >>
    /\ sActivations = << >>
    /\ sRegistered = {}
    /\ sActive = {}
    /\ sPc = "idle"
    /\ sTagMap = << >>
    /\ sPage = 0
    /\ sIds = << >>
    /\ sIdx = 0
    /\ sLog = << >>
    /\ sErr = << >>

VpcIdle ==
    /\ vVpcIDs = << >>
    /\ vIgw = << >>
    /\ vSubnet = << >>
    /\ vRt = << >>
    /\ vRtAssoc = << >>
    /\ vSg = << >>
    /\ vSgIn = << >>
    /\ vSgOut = << >>
    /\ vVpc = << >>
    /\ vPc = "idle"
    /\ vIdx = 0
    /\ vStep = 0
    /\ vMainId = "none"
    /\ vPlan = << >>
    /\ vItem = 0
    /\ vLog = << >>
    /\ vErr = << >>
    /\ vRun = 0

DeleteIdle ==
    /\ dKind = "none"
    /\ dExists = FALSE
    /\ dProfiles = {}
    /\ dPc = << >>
    /\ dList = << >>
    /\ dPos = << >>
    /\ dErr = << >>
    /\ dLog = << >>
    /\ dOverlap = FALSE

ListIdle ==
    /\ lKind = "none"
    /\ lInput = [ClusterName |-> EmptyStr, ClusterNamePrefix |-> EmptyStr,
                 AllClusters |-> FALSE, InstanceAgeThreshold |-> 0]
    /\ lResources = << >>
    /\ lOrder = << >>
    /\ lPc = "idle"
    /\ lPos = 0
    /\ lOut = << >>
    /\ lErr = << >>
    /\ lLog = << >>

CertIdle ==
    /\ cFile = [readable |-> FALSE, pem |-> FALSE, der |-> FALSE,
                NotBefore |-> 0, NotAfter |-> 0, Issuer |-> "none"]
    /\ cCA = << >>
    /\ cPc = "idle"
    /\ cRemediationErr = << >>
    /\ cRet = << >>
    /\ cLog = << >>

FlakyIdle ==
    /\ kFlakeAttempts = 0
    /\ kHandlerPanics = FALSE
    /\ kAttempt = 0
    /\ kPc = "idle"
    /\ kPanic = "none"
    /\ kRetryableError = FALSE
    /\ kPanicableError = FALSE
    /\ kRegistered = 0
    /\ kPos = 0
    /\ kRan = {}
    /\ kGlobal = << >>
    /\ kHandlerCalls = 0
    /\ kTestFailed = FALSE
    /\ kLog = << >>

TestCleanupIdle ==
    /\ tCleanups = << >>
    /\ tDeferred = << >>
    /\ tOwner = << >>
    /\ tOutcome = << >>
    /\ tSpec = 0
    /\ tPc = "idle"
    /\ tPos = 0
    /\ tLog = << >>

PollIdle ==
    /\ pKind = "none"
    /\ pInvocation = 0
    /\ pPc = "idle"
    /\ pConsecutiveErrors = 0
    /\ pPolls = 0
    /\ pTrailingFailures = 0
    /\ pErr = << >>

UnregisterIdle ==
    /\ uMain = "idle"
    /\ uGo = "idle"
    /\ uCtx = "idle"
    /\ uConsecutiveErrors = 0
    /\ uCalls = 0
    /\ uSawEmpty = FALSE
    /\ uRet = << >>

CleanNodeIdle ==
    /\ nOS = << >>
    /\ nPc = "idle"
    /\ nLog = << >>
    /\ nRet = << >>

ExtractIdle ==
    /\ eArn = << >>
    /\ ePc = "idle"
    /\ eParts = << >>
    /\ eRet = << >>

\* Every part of the program but the named one is not running.
IdleExcept(part) ==
    /\ part = "filter" \/ FilterIdle
    /\ part = "sweeper" \/ SweeperIdle
    /\ part = "vpc" \/ VpcIdle
    /\ part = "delete" \/ DeleteIdle
    /\ part = "list" \/ ListIdle
    /\ part = "cert" \/ CertIdle
    /\ part = "flaky" \/ FlakyIdle
    /\ part = "cleanup" \/ TestCleanupIdle
    /\ part = "poll" \/ PollIdle
    /\ part = "unregister" \/ UnregisterIdle
    /\ part = "cleannode" \/ CleanNodeIdle
    /\ part = "extract" \/ ExtractIdle

\* ... and is left as it is by the steps of the named one.
FrameExcept(part) ==
    /\ IF part = "filter" THEN TRUE ELSE UNCHANGED filterVars
    /\ IF part = "sweeper" THEN TRUE ELSE UNCHANGED sweeperVars
    /\ IF part = "vpc" THEN TRUE ELSE UNCHANGED vpcVars
    /\ IF part = "delete" THEN TRUE ELSE UNCHANGED deleteVars
    /\ IF part = "list" THEN TRUE ELSE UNCHANGED listVars
    /\ IF part = "cert" THEN TRUE ELSE UNCHANGED certVars
    /\ IF part = "flaky" THEN TRUE ELSE UNCHANGED flakyVars
    /\ IF part = "cleanup" THEN TRUE ELSE UNCHANGED testCleanupVars
    /\ IF part = "poll" THEN TRUE ELSE UNCHANGED pollVars
    /\ IF part = "unregister" THEN TRUE ELSE UNCHANGED unregisterVars
    /\ IF part = "cleannode" THEN TRUE ELSE UNCHANGED cleanNodeVars
    /\ IF part = "extract" THEN TRUE ELSE UNCHANGED extractVars

FilterInit ==
    /\ IdleExcept("filter")
    /\ fResource \in ResourceWithTags
    /\ fInput \in FilterInput
    /\ fPc = "start"
    /\ fOldEnough = "none"
    /\ fShouldDelete = "none"

CallResourceOldEnough ==
    /\ fPc = "start"
    /\ fOldEnough' = resourceOldEnough(fResource.CreationTime, fInput)
    /\ fPc' = "prechecked"
    /\ UNCHANGED <<fResource, fInput, fShouldDelete>>
    /\ FrameExcept("filter")

CallShouldDeleteResource ==
    /\ fPc = "prechecked"
    /\ fShouldDelete' = shouldDeleteResource(fResource, fInput)
    /\ fPc' = "decided"
    /\ UNCHANGED <<fResource, fInput, fOldEnough>>
    /\ FrameExcept("filter")

FilterNext == CallResourceOldEnough \/ CallShouldDeleteResource

FilterSpec == FilterInit /\ [][FilterNext]_vars

(***************************************************************************)
(* The Sweeper: Run, its two phases, and the SSM cleaner they use.         *)
(* One action per API call; every call may fail.                           *)
(***************************************************************************)
InstanceIDs == 1..NumInstances
ActivationIDs == 1..NumActivations

managedInstanceResourceType == "ManagedInstance"

\* A resource registered "long ago" and one registered this instant.
OldTime == Now - MaxDuration
ClusterTag(v) == [Key |-> TestClusterTagKey, Value |-> v]
NameTag == [Key |-> OtherTagKey, Value |-> <<"p">>]

\* What an activation in the account may look like: untagged, tagged with an
\* empty cluster value, tagged for cluster "c1" (new or old) or for cluster "p".
ActivationKinds ==
    { [Tags |-> <<NameTag>>, CreatedDate |-> OldTime],
      [Tags |-> <<NameTag, ClusterTag(EmptyStr)>>, CreatedDate |-> OldTime],
      [Tags |-> <<ClusterTag(<<"c", "1">>)>>, CreatedDate |-> Now],
      [Tags |-> <<NameTag, ClusterTag(<<"c", "1">>)>>, CreatedDate |-> OldTime],
      [Tags |-> <<ClusterTag(<<"p">>)>>, CreatedDate |-> OldTime] }

\* The same for a managed instance, plus an EC2 instance known to SSM.
InstanceKinds ==
    { [Tags |-> k.Tags, RegistrationDate |-> k.CreatedDate,
       ResourceType |-> managedInstanceResourceType] : k \in ActivationKinds }
    \cup { [Tags |-> <<ClusterTag(<<"c", "1">>)>>, RegistrationDate |-> OldTime,
            ResourceType |-> "EC2Instance"] }

\* The runs of the sweeper: exact name, prefix, all clusters, or no selector at
\* all, each with and without dry run, under a threshold between "new" and "old".
SweeperInputs ==
    { [ClusterName |-> n, ClusterNamePrefix |-> x, AllClusters |-> a,
       InstanceAgeThreshold |-> MaxDuration - 1, DryRun |-> d] :
        n \in {EmptyStr, <<"c", "1">>}, x \in {EmptyStr, <<"c">>},
        a \in BOOLEAN, d \in BOOLEAN }

\* The ids of S in increasing order (the order the service lists them in).
RECURSIVE SortedSeq(_)
SortedSeq(S) ==
    IF S = {} THEN << >>
    ELSE LET m == CHOOSE x \in S : \A y \in S : x <= y
         IN  <<m>> \o SortedSeq(S \ {m})

\* Page number p (from 0) of a listing, and whether more pages follow it.
PageOf(list, p) ==
    SubSeq(list, p * PageSize + 1,
           IF (p + 1) * PageSize < Len(list) THEN (p + 1) * PageSize ELSE Len(list))
HasMorePages(list, p) == (p + 1) * PageSize < Len(list)

\* fmt.Errorf("msg: %w", err): an error is the chain of its messages.
Wrap(msg, err) == <<msg>> \o err
ApiError == <<"ApiError">>
NoError == << >>

\* ARN of a managed instance, split at "/":
\* arn:aws:ssm:us-west-2:<account>:managed-instance/mi-<id>
ManagedInstanceARN(id) == <<"arn:aws:ssm:us-west-2:736510011942:managed-instance", id>>

managedInstanceIDFromARN(arn) == arn[Len(arn)]

\* Whether a tag list carries the cluster tag key at all.
HasClusterTagKey(tags) == \E i \in 1..Len(tags) : tags[i].Key = TestClusterTagKey

\* The tagging API lookup for "ssm:managed-instance": ARN -> tags of every
\* registered instance that carries the cluster tag key.
GetResourcesWithClusterTag ==
    [arn \in { ManagedInstanceARN(id) :
                 id \in { i \in sRegistered : HasClusterTagKey(sInstances[i].Tags) } }
        |-> sInstances[managedInstanceIDFromARN(arn)].Tags]

\* instanceIDToTags[id]: a missing key reads as the nil tag list.
TagsOfInstance(id) == IF id \in DOMAIN sTagMap THEN sTagMap[id] ELSE << >>

shouldDeleteManagedInstance(instance, tags, input) ==
    shouldDeleteResource([CreationTime |-> instance.RegistrationDate, Tags |-> tags],
                         input)

shouldDeleteActivation(activation, input) ==
    shouldDeleteResource([CreationTime |-> activation.CreatedDate,
                          Tags |-> activation.Tags], input)

\* DescribeInstanceInformation filtered by InstanceIds: the registered instances
\* among the ids asked for (an empty filter restricts nothing).
DescribeInstanceInformation ==
    SortedSeq(IF DOMAIN sTagMap = {} THEN sRegistered
              ELSE sRegistered \cap DOMAIN sTagMap)

\* Mutant: the listing keeps every managed instance of the page.
KeepManagedInstance_NoFilter(id) ==
    sInstances[id].ResourceType = managedInstanceResourceType

\* The body of the page loop of ListManagedInstances: is the instance kept?
KeepManagedInstance(id) ==
    /\ sInstances[id].ResourceType = managedInstanceResourceType
    /\ shouldDeleteManagedInstance(sInstances[id], TagsOfInstance(id), sInput)

\* The body of the page loop of listActivations under ListActivations.
KeepActivation(id) == shouldDeleteActivation(sActivations[id], sInput)

DescribeActivations == SortedSeq(sActive)

\* DeleteManagedInstance: the error it returns for an outcome of the
\* DeregisterManagedInstance call.
DeleteManagedInstance(outcome) ==
    IF outcome = "ok" THEN NoError
    ELSE IF outcome = "InvalidInstanceId" THEN NoError
    ELSE Wrap("deregistering managed instance", ApiError)

\* DeleteActivation: the error it returns for an outcome of the call.
DeleteActivation(outcome) ==
    IF outcome = "ok" THEN NoError
    ELSE IF outcome = "InvalidActivation" THEN NoError
    ELSE Wrap("deleting SSM activation", ApiError)

Call(op, arg) == [op |-> op, arg |-> arg]

\* Mutant: the dry-run flag is ignored.
DryRunSkipsDeletion_Ignored(input) == FALSE

\* if filterInput.DryRun { ...; return nil } in both cleanup phases.
DryRunSkipsDeletion(input) == input.DryRun

SweeperInit ==
    /\ IdleExcept("sweeper")
    /\ sInput \in SweeperInputs
    /\ sInstances \in [InstanceIDs -> InstanceKinds]
    /\ sActivations \in [ActivationIDs -> ActivationKinds]
    /\ sRegistered = InstanceIDs
    /\ sActive = ActivationIDs
    /\ sPc = "mi_tagging"
    /\ sTagMap = << >>
    /\ sPage = 0
    /\ sIds = << >>
    /\ sIdx = 0
    /\ sLog = << >>
    /\ sErr = << >>

\* Mutant: Run records the error of the managed-instance phase and goes on to
\* the activations.
ReturnFromInstances_KeepGoing(err) ==
    /\ sPc' = "act_list"
    /\ sErr' = Wrap("cleaning up SSM managed instances", err)
    /\ sIds' = << >>
    /\ sIdx' = 0
    /\ sPage' = 0

\* Mutant: when the listing fails with ids already collected, the phase goes
\* on to delete them.
ReturnFromInstances_DeletesPartialList(err) ==
    IF sPc = "mi_describe" /\ sIds # << >>
    THEN /\ sPc' = "mi_delete"
         /\ sErr' = Wrap("cleaning up SSM managed instances", err)
         /\ sIdx' = 1
         /\ UNCHANGED <<sIds, sPage>>
    ELSE /\ sPc' = "done"
         /\ sErr' = Wrap("cleaning up SSM managed instances", err)
         /\ sIds' = << >>
         /\ sIdx' = 0
         /\ sPage' = 0

\* Run returns err from the managed-instance phase.
ReturnFromInstances(err) ==
    /\ sPc' = "done"
    /\ sErr' = Wrap("cleaning up SSM managed instances", err)
    /\ sIds' = << >>
    /\ sIdx' = 0
    /\ sPage' = 0

\* Run returns from the activation phase, with err or with nil.
ReturnFromActivations(err) ==
    /\ sPc' = "done"
    /\ sErr' = IF err = NoError THEN NoError
               ELSE Wrap("cleaning up SSM hybrid activations", err)
    /\ sIds' = << >>
    /\ sIdx' = 0
    /\ sPage' = 0

\* cleanupSSMManagedInstances returned nil: Run goes on to the activations.
StartActivations ==
    /\ sPc' = "act_list"
    /\ sIds' = << >>
    /\ sIdx' = 0
    /\ sPage' = 0
    /\ sErr' = NoError

\* ListManagedInstances, first call: the tagging API lookup.
ListManagedInstancesTagging ==
    /\ sPc = "mi_tagging"
    /\ sLog' = Append(sLog, Call("GetResources", 0))
    /\ \/ /\ sTagMap' = [id \in { managedInstanceIDFromARN(arn) :
                                    arn \in DOMAIN GetResourcesWithClusterTag }
                            |-> GetResourcesWithClusterTag[ManagedInstanceARN(id)]]
          /\ sPc' = "mi_describe"
          /\ UNCHANGED <<sPage, sIds, sIdx, sErr>>
       \/ /\ ReturnFromInstances(Wrap("listing managed instances",
                                      Wrap("listing SSM managed instances", ApiError)))
          /\ UNCHANGED sTagMap
    /\ UNCHANGED <<sInput, sInstances, sActivations, sRegistered, sActive>>
    /\ FrameExcept("sweeper")

\* ListManagedInstances, one page of DescribeInstanceInformation; after the last
\* page cleanupSSMManagedInstances logs the ids and, unless DryRun, starts
\* deleting them.
ListManagedInstancesPage ==
    /\ sPc = "mi_describe"
    /\ sLog' = Append(sLog, Call("DescribeInstanceInformation", sPage))
    /\ \/ LET ids == sIds \o SelectSeq(PageOf(DescribeInstanceInformation, sPage),
                                       KeepManagedInstance)
          IN  IF HasMorePages(DescribeInstanceInformation, sPage)
              THEN /\ sIds' = ids
                   /\ sPage' = sPage + 1
                   /\ UNCHANGED <<sPc, sIdx, sErr>>
              ELSE IF DryRunSkipsDeletion(sInput) \/ ids = << >>
              THEN StartActivations
              ELSE /\ sIds' = ids
                   /\ sIdx' = 1
                   /\ sPc' = "mi_delete"
                   /\ UNCHANGED <<sPage, sErr>>
       \/ ReturnFromInstances(Wrap("listing managed instances",
                                   Wrap("listing SSM managed instances", ApiError)))
    /\ UNCHANGED <<sInput, sInstances, sActivations, sRegistered, sActive, sTagMap>>
    /\ FrameExcept("sweeper")

\* DeleteManagedInstances: one DeleteManagedInstance of its loop over the ids.
DeleteManagedInstances ==
    /\ sPc = "mi_delete"
    /\ LET id == sIds[sIdx]
           next == IF sIdx < Len(sIds)
                   THEN /\ sIdx' = sIdx + 1
                        /\ UNCHANGED <<sPc, sIds, sPage, sErr>>
                   ELSE StartActivations
       IN  /\ sLog' = Append(sLog, Call("DeregisterManagedInstance", id))
           /\ \/ /\ id \in sRegistered
                 /\ DeleteManagedInstance("ok") = NoError
                 /\ sRegistered' = sRegistered \ {id}
                 /\ next
              \/ /\ id \notin sRegistered
                 /\ DeleteManagedInstance("InvalidInstanceId") = NoError
                 /\ UNCHANGED sRegistered
                 /\ next
              \/ /\ ReturnFromInstances(Wrap("deleting managed instances",
                                             DeleteManagedInstance("ApiError")))
                 /\ UNCHANGED sRegistered
    /\ UNCHANGED <<sInput, sInstances, sActivations, sActive, sTagMap>>
    /\ FrameExcept("sweeper")

\* listActivations, one page of DescribeActivations; after the last page
\* cleanupSSMHybridActivations logs the ids and, unless DryRun, starts deleting.
ListActivationsPage ==
    /\ sPc = "act_list"
    /\ sLog' = Append(sLog, Call("DescribeActivations", sPage))
    /\ \/ LET ids == sIds \o SelectSeq(PageOf(DescribeActivations, sPage),
                                       KeepActivation)
          IN  IF HasMorePages(DescribeActivations, sPage)
              THEN /\ sIds' = ids
                   /\ sPage' = sPage + 1
                   /\ UNCHANGED <<sPc, sIdx, sErr>>
              ELSE IF DryRunSkipsDeletion(sInput) \/ ids = << >>
              THEN ReturnFromActivations(NoError)
              ELSE /\ sIds' = ids
                   /\ sIdx' = 1
                   /\ sPc' = "act_delete"
                   /\ UNCHANGED <<sPage, sErr>>
       \/ ReturnFromActivations(Wrap("listing activations",
                                     Wrap("listing SSM activations", ApiError)))
    /\ UNCHANGED <<sInput, sInstances, sActivations, sRegistered, sActive, sTagMap>>
    /\ FrameExcept("sweeper")

\* DeleteActivations: one DeleteActivation of its loop over the ids.
DeleteActivations ==
    /\ sPc = "act_delete"
    /\ LET id == sIds[sIdx]
           next == IF sIdx < Len(sIds)
                   THEN /\ sIdx' = sIdx + 1
                        /\ UNCHANGED <<sPc, sIds, sPage, sErr>>
                   ELSE ReturnFromActivations(NoError)
       IN  /\ sLog' = Append(sLog, Call("DeleteActivation", id))
           /\ \/ /\ id \in sActive
                 /\ DeleteActivation("ok") = NoError
                 /\ sActive' = sActive \ {id}
                 /\ next
              \/ /\ id \notin sActive
                 /\ DeleteActivation("InvalidActivation") = NoError
                 /\ UNCHANGED sActive
                 /\ next
              \/ /\ ReturnFromActivations(Wrap("deleting activations",
                                               DeleteActivation("ApiError")))
                 /\ UNCHANGED sActive
    /\ UNCHANGED <<sInput, sInstances, sActivations, sRegistered, sTagMap>>
    /\ FrameExcept("sweeper")

\* Another cleanup run (the per-test cleanup) removes the resource the sweeper
\* is about to delete.
ConcurrentCleanup ==
    /\ \/ /\ sPc = "mi_delete"
          /\ sIds[sIdx] \in sRegistered
          /\ sRegistered' = sRegistered \ {sIds[sIdx]}
          /\ UNCHANGED sActive
       \/ /\ sPc = "act_delete"
          /\ sIds[sIdx] \in sActive
          /\ sActive' = sActive \ {sIds[sIdx]}
          /\ UNCHANGED sRegistered
    /\ UNCHANGED <<sInput, sInstances, sActivations, sPc, sTagMap, sPage, sIds,
                   sIdx, sLog, sErr>>
    /\ FrameExcept("sweeper")

SweeperNext ==
    \/ ListManagedInstancesTagging
    \/ ListManagedInstancesPage
    \/ DeleteManagedInstances
    \/ ListActivationsPage
    \/ DeleteActivations
    \/ ConcurrentCleanup

SweeperSpec == SweeperInit /\ [][SweeperNext]_vars


(***************************************************************************)
(* The VPC teardown: DeleteVPCs and its five steps, one action per EC2     *)
(* call. A describe call fixes the response the step's loops iterate over, *)
(* hence the calls they will make; every call may fail.                    *)
(***************************************************************************)
VpcIDs == 1..NumVpcs
ItemIDs == 1..MaxPerStep
\* The main route table and the "default" security group of a VPC; the further
\* ones are numbered from 1. Both exist exactly as long as the VPC does.
MainID == 0
DefaultID == 0

\* What every VPC of the account holds when DeleteVPCs starts: how many
\* resources of each kind, and whether the last security group has ingress and
\* egress rules.
VpcContents ==
    [igws : 0..MaxPerStep, subnets : 0..MaxPerStep, rts : 0..MaxPerStep,
     assocs : 0..MaxPerStep, sgs : 0..MaxPerStep,
     ingress : BOOLEAN, egress : BOOLEAN]

\* An EC2 call: the operation, the resource and (for an association) its id.
Ec2Call(op, id, sub) == [op |-> op, id |-> id, sub |-> sub]

\* Mutant: the security groups are torn down before the route tables.
DeleteVPCsSteps_Swapped ==
    << "deleting internet gateways", "deleting subnets", "deleting security groups",
       "deleting route tables", "deleting VPC" >>

\* The steps of DeleteVPCs for one VPC, named by the message each one's error
\* is wrapped in.
DeleteVPCsSteps ==
    << "deleting internet gateways", "deleting subnets", "deleting route tables",
       "deleting security groups", "deleting VPC" >>

CurrentVpc == vVpcIDs[vIdx]
CurrentStep == DeleteVPCsSteps[vStep]

\* The describe responses.
InternetGatewaysOf(v) ==
    SortedSeq({ i \in ItemIDs : vIgw[v][i] = "attached" })

SubnetsOf(v) == SortedSeq(vSubnet[v])

RouteTable(v, rt) == [id |-> rt, Associations |-> SortedSeq(vRtAssoc[v][rt])]

MainRouteTablesOf(v) == IF vVpc[v] THEN <<RouteTable(v, MainID)>> ELSE << >>

RouteTablesOf(v) ==
    MainRouteTablesOf(v)
    \o [k \in 1..Cardinality(vRt[v]) |-> RouteTable(v, SortedSeq(vRt[v])[k])]

SecurityGroup(v, sg) ==
    [id |-> sg,
     GroupName |-> IF sg = DefaultID THEN "default" ELSE "eks-hybrid-sg",
     IpPermissions |-> sg \in vSgIn[v],
     IpPermissionsEgress |-> sg \in vSgOut[v]]

SecurityGroupsOf(v) ==
    (IF vVpc[v] THEN <<SecurityGroup(v, DefaultID)>> ELSE << >>)
    \o [k \in 1..Cardinality(vSg[v]) |-> SecurityGroup(v, SortedSeq(vSg[v])[k])]

\* The calls the loop of deleteInternetGateways makes for a response.
RECURSIVE deleteInternetGatewaysCalls(_)
deleteInternetGatewaysCalls(resp) ==
    IF resp = << >> THEN << >>
    ELSE << Ec2Call("DetachInternetGateway", Head(resp), 0),
            Ec2Call("DeleteInternetGateway", Head(resp), 0) >>
         \o deleteInternetGatewaysCalls(Tail(resp))

\* The calls the loop of deleteSubnets makes for a response.
deleteSubnetsCalls(resp) ==
    [k \in 1..Len(resp) |-> Ec2Call("DeleteSubnet", resp[k], 0)]

\* Mutant: the main route table is treated like any other.
SkipRouteTable_Never(rtID, mainRouteTableID) == FALSE

\* if rtID == mainRouteTableID { continue }
SkipRouteTable(rtID, mainRouteTableID) == rtID \in mainRouteTableID

\* The calls the loops of deleteRouteTables make for a response.
RECURSIVE deleteRouteTablesCalls(_, _)
deleteRouteTablesCalls(resp, mainRouteTableID) ==
    IF resp = << >> THEN << >>
    ELSE LET rt == Head(resp)
         IN  (IF SkipRouteTable(rt.id, mainRouteTableID) THEN << >>
              ELSE [k \in 1..Len(rt.Associations) |->
                        Ec2Call("DisassociateRouteTable", rt.id, rt.Associations[k])]
                   \o << Ec2Call("DeleteRouteTable", rt.id, 0) >>)
             \o deleteRouteTablesCalls(Tail(resp), mainRouteTableID)

\* The calls of the first loop of deleteSecurityGroups: the rule revocations.
RECURSIVE revokeRulesCalls(_)
revokeRulesCalls(resp) ==
    IF resp = << >> THEN << >>
    ELSE LET sg == Head(resp)
         IN  (IF sg.GroupName = "default" THEN << >>
              ELSE (IF sg.IpPermissions
                    THEN << Ec2Call("RevokeSecurityGroupIngress", sg.id, 0) >>
                    ELSE << >>)
                   \o (IF sg.IpPermissionsEgress
                       THEN << Ec2Call("RevokeSecurityGroupEgress", sg.id, 0) >>
                       ELSE << >>))
             \o revokeRulesCalls(Tail(resp))

\* The calls of its second loop: the deletions.
RECURSIVE deleteGroupsCalls(_)
deleteGroupsCalls(resp) ==
    IF resp = << >> THEN << >>
    ELSE (IF Head(resp).GroupName = "default" THEN << >>
          ELSE << Ec2Call("DeleteSecurityGroup", Head(resp).id, 0) >>)
         \o deleteGroupsCalls(Tail(resp))

\* Mutant: the groups are deleted before their rules are revoked.
deleteSecurityGroupsCalls_DeleteFirst(resp) == deleteGroupsCalls(resp) \o revokeRulesCalls(resp)

deleteSecurityGroupsCalls(resp) == revokeRulesCalls(resp) \o deleteGroupsCalls(resp)

\* EC2 refuses to delete a VPC that still holds resources.
VpcEmpty(v) ==
    /\ \A i \in ItemIDs : vIgw[v][i] # "attached"
    /\ vSubnet[v] = {}
    /\ vRt[v] = {}
    /\ vSg[v] = {}

Logged(call, ok) ==
    vLog' = Append(vLog, [vpc |-> CurrentVpc, op |-> call.op, id |-> call.id,
                          sub |-> call.sub, ok |-> ok])

Control(pc, idx, step, plan, item, err) ==
    /\ vPc' = pc
    /\ vIdx' = idx
    /\ vStep' = step
    /\ vPlan' = plan
    /\ vItem' = item
    /\ vErr' = err

\* DeleteVPCs enters step number k of the VPC at position idx.
StartStep(idx, k) ==
    IF DeleteVPCsSteps[k] = "deleting VPC"
    THEN Control("calls", idx, k, << Ec2Call("DeleteVpc", vVpcIDs[idx], 0) >>, 1, NoError)
    ELSE IF DeleteVPCsSteps[k] = "deleting route tables"
    THEN Control("describe_main", idx, k, << >>, 0, NoError)
    ELSE Control("describe", idx, k, << >>, 0, NoError)

\* The step returned nil: the next step, the next VPC, or return nil.
StepDone ==
    IF vStep < Len(DeleteVPCsSteps) THEN StartStep(vIdx, vStep + 1)
    ELSE IF vIdx < Len(vVpcIDs) THEN StartStep(vIdx + 1, 1)
    ELSE Control("done", vIdx, vStep, << >>, 0, NoError)

\* A describe call succeeded; the loops will make these calls.
Described(calls) ==
    IF calls = << >> THEN StepDone
    ELSE Control("calls", vIdx, vStep, calls, 1, NoError)

\* A call of the loops succeeded (or its error was only logged).
CallDone ==
    IF vItem < Len(vPlan) THEN Control("calls", vIdx, vStep, vPlan, vItem + 1, NoError)
    ELSE StepDone

\* Mutant: the error of a failed call is dropped and the teardown goes on.
Abort_KeepGoing(msg) ==
    IF vPc = "calls" THEN CallDone ELSE Described(<< >>)

\* A call failed: the step returns the error and DeleteVPCs returns it wrapped.
Abort(msg) ==
    Control("done", vIdx, vStep, << >>, 0, Wrap(CurrentStep, Wrap(msg, ApiError)))

VpcInit ==
    /\ IdleExcept("vpc")
    /\ vVpcIDs \in { [k \in 1..n |-> k] : n \in {0, NumVpcs} }
    /\ \E c \in VpcContents :
          /\ vIgw = [v \in VpcIDs |->
                        [i \in ItemIDs |-> IF i <= c.igws THEN "attached" ELSE "deleted"]]
          /\ vSubnet = [v \in VpcIDs |-> 1..c.subnets]
          /\ vRt = [v \in VpcIDs |-> 1..c.rts]
          /\ vRtAssoc = [v \in VpcIDs |->
                            [rt \in {MainID} \cup ItemIDs |->
                                IF rt = MainID THEN {MainID}
                                ELSE IF rt <= c.rts THEN 1..c.assocs ELSE {}]]
          /\ vSg = [v \in VpcIDs |-> 1..c.sgs]
          /\ vSgIn = [v \in VpcIDs |->
                         {DefaultID} \cup (IF c.ingress THEN {c.sgs} \ {DefaultID} ELSE {})]
          /\ vSgOut = [v \in VpcIDs |->
                          {DefaultID} \cup (IF c.egress THEN {c.sgs} \ {DefaultID} ELSE {})]
    /\ vVpc = [v \in VpcIDs |-> TRUE]
    /\ vPc = "start"
    /\ vIdx = 0
    /\ vStep = 0
    /\ vMainId = {}
    /\ vPlan = << >>
    /\ vItem = 0
    /\ vLog = << >>
    /\ vErr = << >>
    /\ vRun = 1

VpcFrame == FrameExcept("vpc") /\ UNCHANGED <<vVpcIDs, vRun>>

\* DeleteVPCs: nothing to do for an empty list, else the first step of the
\* first VPC.
DeleteVPCs ==
    /\ vPc = "start"
    /\ IF Len(vVpcIDs) = 0
       THEN Control("done", vIdx, vStep, << >>, 0, NoError)
       ELSE StartStep(1, 1)
    /\ UNCHANGED <<vpcCloudVars, vMainId, vLog>>
    /\ VpcFrame

\* deleteInternetGateways: the describe call.
DescribeInternetGateways ==
    /\ vPc = "describe"
    /\ CurrentStep = "deleting internet gateways"
    /\ \/ /\ Logged(Ec2Call("DescribeInternetGateways", CurrentVpc, 0), TRUE)
          /\ Described(deleteInternetGatewaysCalls(InternetGatewaysOf(CurrentVpc)))
       \/ /\ Logged(Ec2Call("DescribeInternetGateways", CurrentVpc, 0), FALSE)
          /\ Abort("describing internet gateways")
    /\ UNCHANGED <<vpcCloudVars, vMainId>>
    /\ VpcFrame

DetachInternetGateway ==
    /\ vPc = "calls"
    /\ vPlan[vItem].op = "DetachInternetGateway"
    /\ LET igw == vPlan[vItem].id
       IN  \/ /\ vIgw[CurrentVpc][igw] = "attached"
              /\ vIgw' = [vIgw EXCEPT ![CurrentVpc][igw] = "detached"]
              /\ Logged(vPlan[vItem], TRUE)
              /\ CallDone
           \/ /\ UNCHANGED vIgw
              /\ Logged(vPlan[vItem], FALSE)
              /\ Abort("detaching internet gateway")
    /\ UNCHANGED <<vSubnet, vRt, vRtAssoc, vSg, vSgIn, vSgOut, vVpc, vMainId>>
    /\ VpcFrame

DeleteInternetGateway ==
    /\ vPc = "calls"
    /\ vPlan[vItem].op = "DeleteInternetGateway"
    /\ LET igw == vPlan[vItem].id
       IN  \/ /\ vIgw[CurrentVpc][igw] = "detached"
              /\ vIgw' = [vIgw EXCEPT ![CurrentVpc][igw] = "deleted"]
              /\ Logged(vPlan[vItem], TRUE)
              /\ CallDone
           \/ /\ UNCHANGED vIgw
              /\ Logged(vPlan[vItem], FALSE)
              /\ Abort("deleting internet gateway")
    /\ UNCHANGED <<vSubnet, vRt, vRtAssoc, vSg, vSgIn, vSgOut, vVpc, vMainId>>
    /\ VpcFrame

\* deleteSubnets: the describe call.
DescribeSubnets ==
    /\ vPc = "describe"
    /\ CurrentStep = "deleting subnets"
    /\ \/ /\ Logged(Ec2Call("DescribeSubnets", CurrentVpc, 0), TRUE)
          /\ Described(deleteSubnetsCalls(SubnetsOf(CurrentVpc)))
       \/ /\ Logged(Ec2Call("DescribeSubnets", CurrentVpc, 0), FALSE)
          /\ Abort("describing subnets")
    /\ UNCHANGED <<vpcCloudVars, vMainId>>
    /\ VpcFrame

DeleteSubnet ==
    /\ vPc = "calls"
    /\ vPlan[vItem].op = "DeleteSubnet"
    /\ LET subnet == vPlan[vItem].id
       IN  \/ /\ subnet \in vSubnet[CurrentVpc]
              /\ vSubnet' = [vSubnet EXCEPT ![CurrentVpc] = @ \ {subnet}]
              /\ Logged(vPlan[vItem], TRUE)
              /\ CallDone
           \/ /\ UNCHANGED vSubnet
              /\ Logged(vPlan[vItem], FALSE)
              /\ Abort("deleting subnet")
    /\ UNCHANGED <<vIgw, vRt, vRtAssoc, vSg, vSgIn, vSgOut, vVpc, vMainId>>
    /\ VpcFrame

\* deleteRouteTables: the describe call that finds the main route table.
DescribeMainRouteTable ==
    /\ vPc = "describe_main"
    /\ CurrentStep = "deleting route tables"
    /\ \/ /\ Logged(Ec2Call("DescribeRouteTables", CurrentVpc, 0), TRUE)
          /\ vMainId' = IF Len(MainRouteTablesOf(CurrentVpc)) > 0
                        THEN {MainRouteTablesOf(CurrentVpc)[1].id} ELSE {}
          /\ Control("describe", vIdx, vStep, << >>, 0, NoError)
       \/ /\ Logged(Ec2Call("DescribeRouteTables", CurrentVpc, 0), FALSE)
          /\ Abort("describing main route table")
          /\ UNCHANGED vMainId
    /\ UNCHANGED vpcCloudVars
    /\ VpcFrame

\* deleteRouteTables: the describe call that lists all route tables.
DescribeRouteTables ==
    /\ vPc = "describe"
    /\ CurrentStep = "deleting route tables"
    /\ \/ /\ Logged(Ec2Call("DescribeRouteTables", CurrentVpc, 0), TRUE)
          /\ Described(deleteRouteTablesCalls(RouteTablesOf(CurrentVpc), vMainId))
       \/ /\ Logged(Ec2Call("DescribeRouteTables", CurrentVpc, 0), FALSE)
          /\ Abort("describing route tables")
    /\ UNCHANGED <<vpcCloudVars, vMainId>>
    /\ VpcFrame

DisassociateRouteTable ==
    /\ vPc = "calls"
    /\ vPlan[vItem].op = "DisassociateRouteTable"
    /\ LET rt == vPlan[vItem].id
           assoc == vPlan[vItem].sub
       IN  \/ /\ assoc \in vRtAssoc[CurrentVpc][rt]
              /\ vRtAssoc' = [vRtAssoc EXCEPT ![CurrentVpc][rt] = @ \ {assoc}]
              /\ Logged(vPlan[vItem], TRUE)
              /\ CallDone
           \/ /\ UNCHANGED vRtAssoc
              /\ Logged(vPlan[vItem], FALSE)
              /\ Abort("disassociating route table")
    /\ UNCHANGED <<vIgw, vSubnet, vRt, vSg, vSgIn, vSgOut, vVpc, vMainId>>
    /\ VpcFrame

DeleteRouteTable ==
    /\ vPc = "calls"
    /\ vPlan[vItem].op = "DeleteRouteTable"
    /\ LET rt == vPlan[vItem].id
       IN  \/ /\ rt \in vRt[CurrentVpc]
              /\ vRtAssoc[CurrentVpc][rt] = {}
              /\ vRt' = [vRt EXCEPT ![CurrentVpc] = @ \ {rt}]
              /\ Logged(vPlan[vItem], TRUE)
              /\ CallDone
           \/ /\ UNCHANGED vRt
              /\ Logged(vPlan[vItem], FALSE)
              /\ Abort("deleting route table")
    /\ UNCHANGED <<vIgw, vSubnet, vRtAssoc, vSg, vSgIn, vSgOut, vVpc, vMainId>>
    /\ VpcFrame

\* deleteSecurityGroups: the describe call.
DescribeSecurityGroups ==
    /\ vPc = "describe"
    /\ CurrentStep = "deleting security groups"
    /\ \/ /\ Logged(Ec2Call("DescribeSecurityGroups", CurrentVpc, 0), TRUE)
          /\ Described(deleteSecurityGroupsCalls(SecurityGroupsOf(CurrentVpc)))
       \/ /\ Logged(Ec2Call("DescribeSecurityGroups", CurrentVpc, 0), FALSE)
          /\ Abort("describing security groups")
    /\ UNCHANGED <<vpcCloudVars, vMainId>>
    /\ VpcFrame

\* A failed revoke is logged and the loop continues.
RevokeSecurityGroupIngress ==
    /\ vPc = "calls"
    /\ vPlan[vItem].op = "RevokeSecurityGroupIngress"
    /\ LET sg == vPlan[vItem].id
       IN  \/ /\ sg \in vSgIn[CurrentVpc]
              /\ vSgIn' = [vSgIn EXCEPT ![CurrentVpc] = @ \ {sg}]
              /\ Logged(vPlan[vItem], TRUE)
           \/ /\ UNCHANGED vSgIn
              /\ Logged(vPlan[vItem], FALSE)
    /\ CallDone
    /\ UNCHANGED <<vIgw, vSubnet, vRt, vRtAssoc, vSg, vSgOut, vVpc, vMainId>>
    /\ VpcFrame

RevokeSecurityGroupEgress ==
    /\ vPc = "calls"
    /\ vPlan[vItem].op = "RevokeSecurityGroupEgress"
    /\ LET sg == vPlan[vItem].id
       IN  \/ /\ sg \in vSgOut[CurrentVpc]
              /\ vSgOut' = [vSgOut EXCEPT ![CurrentVpc] = @ \ {sg}]
              /\ Logged(vPlan[vItem], TRUE)
           \/ /\ UNCHANGED vSgOut
              /\ Logged(vPlan[vItem], FALSE)
    /\ CallDone
    /\ UNCHANGED <<vIgw, vSubnet, vRt, vRtAssoc, vSg, vSgIn, vVpc, vMainId>>
    /\ VpcFrame

DeleteSecurityGroup ==
    /\ vPc = "calls"
    /\ vPlan[vItem].op = "DeleteSecurityGroup"
    /\ LET sg == vPlan[vItem].id
       IN  \/ /\ sg \in vSg[CurrentVpc]
              /\ vSg' = [vSg EXCEPT ![CurrentVpc] = @ \ {sg}]
              /\ vSgIn' = [vSgIn EXCEPT ![CurrentVpc] = @ \ {sg}]
              /\ vSgOut' = [vSgOut EXCEPT ![CurrentVpc] = @ \ {sg}]
              /\ Logged(vPlan[vItem], TRUE)
              /\ CallDone
           \/ /\ UNCHANGED <<vSg, vSgIn, vSgOut>>
              /\ Logged(vPlan[vItem], FALSE)
              /\ Abort("deleting security group")
    /\ UNCHANGED <<vIgw, vSubnet, vRt, vRtAssoc, vVpc, vMainId>>
    /\ VpcFrame

\* deleteVPC: the VPC goes, and with it its main route table and default group.
DeleteVpc ==
    /\ vPc = "calls"
    /\ vPlan[vItem].op = "DeleteVpc"
    /\ \/ /\ vVpc[CurrentVpc]
          /\ VpcEmpty(CurrentVpc)
          /\ vVpc' = [vVpc EXCEPT ![CurrentVpc] = FALSE]
          /\ Logged(vPlan[vItem], TRUE)
          /\ CallDone
       \/ /\ UNCHANGED vVpc
          /\ Logged(vPlan[vItem], FALSE)
          /\ Abort("deleting VPC")
    /\ UNCHANGED <<vIgw, vSubnet, vRt, vRtAssoc, vSg, vSgIn, vSgOut, vMainId>>
    /\ VpcFrame

VpcNext ==
    \/ DeleteVPCs
    \/ DescribeInternetGateways
    \/ DetachInternetGateway
    \/ DeleteInternetGateway
    \/ DescribeSubnets
    \/ DeleteSubnet
    \/ DescribeMainRouteTable
    \/ DescribeRouteTables
    \/ DisassociateRouteTable
    \/ DeleteRouteTable
    \/ DescribeSecurityGroups
    \/ RevokeSecurityGroupIngress
    \/ RevokeSecurityGroupEgress
    \/ DeleteSecurityGroup
    \/ DeleteVpc

VpcSpec == VpcInit /\ [][VpcNext]_vars

\* Security groups of the VPC torn down under VpcGroupsSpec.
NumGroups == 2

\* DeleteVPCs for one VPC that holds resources of every kind and several
\* security groups, each with or without ingress and egress rules.
VpcGroupsInit ==
    /\ IdleExcept("vpc")
    /\ vVpcIDs = <<1>>
    /\ vIgw = [v \in VpcIDs |-> [i \in ItemIDs |-> "attached"]]
    /\ vSubnet = [v \in VpcIDs |-> ItemIDs]
    /\ vRt = [v \in VpcIDs |-> ItemIDs]
    /\ vRtAssoc = [v \in VpcIDs |->
                      [rt \in {MainID} \cup ItemIDs |->
                          IF rt = MainID THEN {MainID} ELSE ItemIDs]]
    /\ vSg = [v \in VpcIDs |-> 1..NumGroups]
    /\ \E in \in SUBSET (1..NumGroups) : vSgIn = [v \in VpcIDs |-> {DefaultID} \cup in]
    /\ \E out \in SUBSET (1..NumGroups) : vSgOut = [v \in VpcIDs |-> {DefaultID} \cup out]
    /\ vVpc = [v \in VpcIDs |-> TRUE]
    /\ vPc = "start"
    /\ vIdx = 0
    /\ vStep = 0
    /\ vMainId = {}
    /\ vPlan = << >>
    /\ vItem = 0
    /\ vLog = << >>
    /\ vErr = << >>
    /\ vRun = 1

VpcGroupsSpec == VpcGroupsInit /\ [][VpcNext]_vars

\* The caller invokes DeleteVPCs again with the same vpcIDs after it returned,
\* with or without an error. The log is that of the current invocation.
DeleteVPCsAgain ==
    /\ vPc = "done"
    /\ vRun < MaxRuns
    /\ vRun' = vRun + 1
    /\ IF Len(vVpcIDs) = 0
       THEN Control("done", vIdx, vStep, << >>, 0, NoError)
       ELSE StartStep(1, 1)
    /\ vLog' = << >>
    /\ UNCHANGED <<vpcCloudVars, vMainId, vVpcIDs>>
    /\ FrameExcept("vpc")

VpcRerunNext ==
    \/ VpcNext
    \/ DeleteVPCsAgain

VpcRerunSpec == VpcInit /\ [][VpcRerunNext]_vars


(***************************************************************************)
(* The Delete<X> functions of the cleaners, called for one resource id by  *)
(* cleanup runs that may overlap. Every API call may fail with an error    *)
(* other than not-found.                                                   *)
(***************************************************************************)
Runs == 1..NumRuns
InstanceProfiles == 1..MaxInstanceProfiles

\* The functions that make one API call. rolesanywhere.go holds two
\* RolesAnywhereCleaner implementations; the number is the line of the function.
SimpleDeletes ==
    {"DeleteActivation", "DeleteManagedInstance", "DeleteParameter",
     "DeleteProfile/73", "DeleteTrustAnchor/136",
     "DeleteProfile/229", "DeleteTrustAnchor/287"}

DeleteKinds == SimpleDeletes \cup {"DeleteRole"}

\* An error every API call may return whatever the state of the resource.
OtherError == "InternalServerError"

\* The error the service returns when the resource is gone.
NotFoundError(kind) ==
    CASE kind = "DeleteActivation" -> "InvalidActivation"
      [] kind = "DeleteManagedInstance" -> "InvalidInstanceId"
      [] kind = "DeleteParameter" -> "ParameterNotFound"
      [] kind = "DeleteRole" -> "NoSuchEntityException"
      [] OTHER -> "ResourceNotFoundException"

\* Mutant: no error type is treated as "already deleted".
AlreadyDeletedType_None(kind) == "none"

\* The error type the function tests with errors.IsType and returns nil for.
AlreadyDeletedType(kind) ==
    CASE kind = "DeleteActivation" -> "InvalidActivation"
      [] kind = "DeleteManagedInstance" -> "InvalidInstanceId"
      [] kind = "DeleteParameter" -> "ParameterNotFound"
      [] kind = "DeleteRole" -> "NoSuchEntityException"
      [] kind \in {"DeleteProfile/229", "DeleteTrustAnchor/287"} ->
             "ResourceNotFoundException"
      [] OTHER -> "none"

\* The message the function wraps any other error in.
DeleteErrorMessage(kind) ==
    CASE kind = "DeleteActivation" -> "deleting SSM activation"
      [] kind = "DeleteManagedInstance" -> "deregistering managed instance"
      [] kind = "DeleteParameter" -> "deleting SSM parameter"
      [] kind = "DeleteRole" -> "deleting IAM role"
      [] kind \in {"DeleteProfile/73", "DeleteProfile/229"} ->
             "deleting roles anywhere profile"
      [] OTHER -> "deleting roles anywhere trust anchor"

\* if err != nil && errors.IsType(err, T) { return nil }
\* if err != nil { return fmt.Errorf(msg, err) }; return nil
ErrorAfter(kind, msg, code) ==
    IF code = "ok" THEN NoError
    ELSE IF code = AlreadyDeletedType(kind) THEN NoError
    ELSE Wrap(msg, <<code>>)

DeleteInit ==
    /\ IdleExcept("delete")
    /\ dKind \in DeleteKinds
    /\ dExists \in BOOLEAN
    /\ dProfiles \in IF dKind = "DeleteRole" /\ dExists
                     THEN SUBSET InstanceProfiles ELSE {{}}
    /\ dPc = [r \in Runs |-> "idle"]
    /\ dList = [r \in Runs |-> << >>]
    /\ dPos = [r \in Runs |-> 0]
    /\ dErr = [r \in Runs |-> NoError]
    /\ dLog = << >>
    /\ dOverlap = FALSE

DeleteLogged(r, op, code) ==
    dLog' = Append(dLog, [run |-> r, op |-> op, code |-> code])

\* The function returns err to its caller.
DeleteReturns(r, err) ==
    /\ dPc' = [dPc EXCEPT ![r] = "done"]
    /\ dErr' = [dErr EXCEPT ![r] = err]

\* A cleanup run calls Delete<X> for the resource id.
CallDelete(r) ==
    /\ dPc[r] = "idle"
    /\ dPc' = [dPc EXCEPT ![r] = IF dKind = "DeleteRole" THEN "list" ELSE "call"]
    /\ dOverlap' = (dOverlap \/ \E q \in Runs \ {r} : dPc[q] \notin {"idle", "done"})
    /\ UNCHANGED <<dKind, dExists, dProfiles, dList, dPos, dErr, dLog>>
    /\ FrameExcept("delete")

\* The one API call of a simple Delete<X> and what the function returns.
DeleteCall(r, kind) ==
    /\ dKind = kind
    /\ dPc[r] = "call"
    /\ \E code \in (IF dExists THEN {"ok"} ELSE {NotFoundError(kind)}) \cup {OtherError} :
          /\ dExists' = IF code = "ok" THEN FALSE ELSE dExists
          /\ DeleteLogged(r, kind, code)
          /\ DeleteReturns(r, ErrorAfter(kind, DeleteErrorMessage(kind), code))
    /\ UNCHANGED <<dKind, dProfiles, dList, dPos, dOverlap>>
    /\ FrameExcept("delete")

DeleteActivationCall(r) == DeleteCall(r, "DeleteActivation")

DeregisterManagedInstance(r) == DeleteCall(r, "DeleteManagedInstance")

DeleteParameter(r) == DeleteCall(r, "DeleteParameter")

\* RolesAnywhereCleaner of rolesanywhere.go lines 16-145.
DeleteProfileFirst(r) == DeleteCall(r, "DeleteProfile/73")

DeleteTrustAnchorFirst(r) == DeleteCall(r, "DeleteTrustAnchor/136")

\* RolesAnywhereCleaner of rolesanywhere.go lines 162-301.
DeleteProfile(r) == DeleteCall(r, "DeleteProfile/229")

DeleteTrustAnchor(r) == DeleteCall(r, "DeleteTrustAnchor/287")

\* DeleteRole: the instance profiles of the role are listed.
ListInstanceProfilesForRole(r) ==
    /\ dKind = "DeleteRole"
    /\ dPc[r] = "list"
    /\ \E code \in (IF dExists THEN {"ok"} ELSE {NotFoundError(dKind)}) \cup {OtherError} :
          /\ DeleteLogged(r, "ListInstanceProfilesForRole", code)
          /\ IF code = "ok"
             THEN /\ dList' = [dList EXCEPT ![r] = SortedSeq(dProfiles)]
                  /\ dPos' = [dPos EXCEPT ![r] = 1]
                  /\ dPc' = [dPc EXCEPT ![r] = IF dProfiles = {} THEN "delete" ELSE "remove"]
                  /\ UNCHANGED dErr
             ELSE /\ DeleteReturns(r, ErrorAfter(dKind, "listing IAM instance profiles", code))
                  /\ UNCHANGED <<dList, dPos>>
    /\ UNCHANGED <<dKind, dExists, dProfiles, dOverlap>>
    /\ FrameExcept("delete")

\* Mutant: a failed removal is skipped and the loop goes on.
RemoveRoleFromInstanceProfile_IgnoreError(r) ==
    /\ dKind = "DeleteRole"
    /\ dPc[r] = "remove"
    /\ LET profile == dList[r][dPos[r]]
       IN  \E code \in (IF dExists /\ profile \in dProfiles
                        THEN {"ok"} ELSE {NotFoundError(dKind)}) \cup {OtherError} :
              /\ DeleteLogged(r, "RemoveRoleFromInstanceProfile", code)
              /\ dProfiles' = IF code = "ok" THEN dProfiles \ {profile} ELSE dProfiles
              /\ dPos' = [dPos EXCEPT ![r] = @ + 1]
              /\ dPc' = [dPc EXCEPT ![r] =
                            IF dPos[r] < Len(dList[r]) THEN "remove" ELSE "delete"]
              /\ UNCHANGED dErr
    /\ UNCHANGED <<dKind, dExists, dList, dOverlap>>
    /\ FrameExcept("delete")

\* DeleteRole: the role is removed from the next listed instance profile; any
\* error is returned.
RemoveRoleFromInstanceProfile(r) ==
    /\ dKind = "DeleteRole"
    /\ dPc[r] = "remove"
    /\ LET profile == dList[r][dPos[r]]
       IN  \E code \in (IF dExists /\ profile \in dProfiles
                        THEN {"ok"} ELSE {NotFoundError(dKind)}) \cup {OtherError} :
              /\ DeleteLogged(r, "RemoveRoleFromInstanceProfile", code)
              /\ IF code = "ok"
                 THEN /\ dProfiles' = dProfiles \ {profile}
                      /\ dPos' = [dPos EXCEPT ![r] = @ + 1]
                      /\ dPc' = [dPc EXCEPT ![r] =
                                    IF dPos[r] < Len(dList[r]) THEN "remove" ELSE "delete"]
                      /\ UNCHANGED dErr
                 ELSE /\ DeleteReturns(r, Wrap("removing role from instance profile", <<code>>))
                      /\ UNCHANGED <<dProfiles, dPos>>
    /\ UNCHANGED <<dKind, dExists, dList, dOverlap>>
    /\ FrameExcept("delete")

\* DeleteRole: the role is deleted.
DeleteRole(r) ==
    /\ dKind = "DeleteRole"
    /\ dPc[r] = "delete"
    /\ \E code \in (IF ~dExists THEN {NotFoundError(dKind)}
                    ELSE IF dProfiles = {} THEN {"ok"}
                    ELSE {"DeleteConflictException"}) \cup {OtherError} :
          /\ dExists' = IF code = "ok" THEN FALSE ELSE dExists
          /\ DeleteLogged(r, "DeleteRole", code)
          /\ DeleteReturns(r, ErrorAfter(dKind, DeleteErrorMessage(dKind), code))
    /\ UNCHANGED <<dKind, dProfiles, dList, dPos, dOverlap>>
    /\ FrameExcept("delete")

DeleteNext ==
    \E r \in Runs :
        \/ CallDelete(r)
        \/ DeleteActivationCall(r)
        \/ DeregisterManagedInstance(r)
        \/ DeleteParameter(r)
        \/ DeleteProfileFirst(r)
        \/ DeleteTrustAnchorFirst(r)
        \/ DeleteProfile(r)
        \/ DeleteTrustAnchor(r)
        \/ ListInstanceProfilesForRole(r)
        \/ RemoveRoleFromInstanceProfile(r)
        \/ DeleteRole(r)

DeleteSpec == DeleteInit /\ [][DeleteNext]_vars

(***************************************************************************)
(* The bulk listings that look every candidate of the tagging API up with  *)
(* a Get/Describe call before filtering it.                                *)
(***************************************************************************)
Candidates == 1..NumCandidates

ListKinds == {"ListProfiles", "ListTrustAnchors", "ListEKSClusters", "listStacks"}

\* ListProfiles and ListTrustAnchors range over a Go map, in any order; the
\* other two range over a slice.
RangesOverMap(kind) == kind \in {"ListProfiles", "ListTrustAnchors"}

\* What a candidate may be: still existing or not, tagged for cluster "c1" or
\* for cluster "p", with a stack name listStacks includes or not.
CandidateKinds ==
    [exists : BOOLEAN,
     Tags : {<<ClusterTag(<<"c", "1">>)>>, <<NameTag, ClusterTag(<<"p">>)>>},
     CreationTime : {OldTime},
     included : BOOLEAN]

\* The message the error of the tagging lookup is wrapped in.
TaggingErrorMessage(kind) ==
    CASE kind = "ListProfiles" -> "listing roles anywhere profiles"
      [] kind = "ListTrustAnchors" -> "listing roles anywhere trust anchors"
      [] kind = "ListEKSClusters" -> "getting tagged EKS stacks"
      [] OTHER -> "getting tagged stack ARNs"

\* The message any other error of the per-candidate call is wrapped in.
GetErrorMessage(kind) ==
    CASE kind = "ListProfiles" -> "getting profile details"
      [] kind = "ListTrustAnchors" -> "getting trust anchor details"
      [] kind = "ListEKSClusters" -> "describing cluster"
      [] OTHER -> "describing stack"

\* The error the service returns for a candidate that does not exist.
CandidateNotFound(kind) ==
    IF kind = "listStacks" THEN "StackNotFoundException" ELSE "ResourceNotFoundException"

\* Mutant: no error type makes the loop skip the candidate.
SkippedErrorType_None(kind) == "none"

\* The error type the loop tests with errors.IsType and continues on.
SkippedErrorType(kind) ==
    IF kind = "listStacks" THEN "StackNotFoundException" ELSE "ResourceNotFoundException"

\* The filter applied to a candidate the service returned.
CandidateSelected(kind, candidate, input) ==
    /\ kind = "listStacks" => candidate.included
    /\ shouldDeleteResource([CreationTime |-> candidate.CreationTime,
                             Tags |-> candidate.Tags], input)

ListInit ==
    /\ IdleExcept("list")
    /\ lKind \in ListKinds
    /\ lInput = [ClusterName |-> <<"c", "1">>, ClusterNamePrefix |-> EmptyStr,
                 AllClusters |-> FALSE, InstanceAgeThreshold |-> MaxDuration - 1]
    /\ lResources \in [Candidates -> CandidateKinds]
    /\ \A id \in Candidates : lKind # "listStacks" => lResources[id].included
    /\ lOrder \in { o \in [Candidates -> Candidates] :
                       /\ \A i, j \in Candidates : o[i] = o[j] => i = j
                       /\ RangesOverMap(lKind) \/ \A i \in Candidates : o[i] = i }
    /\ lPc = "tagging"
    /\ lPos = 0
    /\ lOut = << >>
    /\ lErr = << >>
    /\ lLog = << >>

ListLogged(op, id, code) ==
    lLog' = Append(lLog, [op |-> op, id |-> id, code |-> code])

\* return ids, nil  or  return nil, err
ListReturns(ids, err) ==
    /\ lPc' = "done"
    /\ lOut' = ids
    /\ lErr' = err
    /\ UNCHANGED lPos

\* The loop body is over for this candidate, with these ids collected.
NextCandidate(ids) ==
    IF lPos < Len(lOrder)
    THEN /\ lPos' = lPos + 1
         /\ lOut' = ids
         /\ UNCHANGED <<lPc, lErr>>
    ELSE ListReturns(ids, NoError)

\* The tagging API lookup that yields the candidates.
GetTaggedResources ==
    /\ lPc = "tagging"
    /\ \/ /\ ListLogged("GetResources", 0, "ok")
          /\ lPc' = "get"
          /\ lPos' = 1
          /\ UNCHANGED <<lOut, lErr>>
       \/ /\ ListLogged("GetResources", 0, OtherError)
          /\ ListReturns(<< >>, Wrap(TaggingErrorMessage(lKind), <<OtherError>>))
    /\ UNCHANGED <<lKind, lInput, lResources, lOrder>>
    /\ FrameExcept("list")

\* The per-candidate call of the loop and what the loop does with its answer.
GetCandidate(kind, op) ==
    /\ lKind = kind
    /\ lPc = "get"
    /\ LET id == lOrder[lPos]
           answers == IF ~lResources[id].exists THEN {CandidateNotFound(kind)}
                      ELSE IF kind = "listStacks" THEN {"ok", "no stacks"}
                      ELSE {"ok"}
       IN  \E code \in answers \cup {OtherError} :
              /\ ListLogged(op, id, code)
              /\ IF code = "ok"
                 THEN NextCandidate(IF CandidateSelected(kind, lResources[id], lInput)
                                    THEN Append(lOut, id) ELSE lOut)
                 ELSE IF code = "no stacks" \/ code = SkippedErrorType(kind)
                 THEN NextCandidate(lOut)
                 ELSE ListReturns(<< >>, Wrap(GetErrorMessage(kind), <<code>>))
    /\ UNCHANGED <<lKind, lInput, lResources, lOrder>>
    /\ FrameExcept("list")

GetProfile == GetCandidate("ListProfiles", "GetProfile")

GetTrustAnchor == GetCandidate("ListTrustAnchors", "GetTrustAnchor")

DescribeCluster == GetCandidate("ListEKSClusters", "DescribeCluster")

DescribeStacks == GetCandidate("listStacks", "DescribeStacks")

ListNext ==
    \/ GetTaggedResources
    \/ GetProfile
    \/ GetTrustAnchor
    \/ DescribeCluster
    \/ DescribeStacks

ListSpec == ListInit /\ [][ListNext]_vars

(***************************************************************************)
(* KubeletCertificateValidator.Run, one action per check.                  *)
(***************************************************************************)
\* NotBefore and NotAfter of a certificate: before, at and after time.Now().
CertTimes == {Now - 1, Now, Now + 1}

\* The file at certPath: missing, not PEM, PEM that is no certificate, or a
\* certificate with its validity and the CA that signed it.
CertFiles ==
    [readable : BOOLEAN, pem : BOOLEAN, der : BOOLEAN,
     NotBefore : CertTimes, NotAfter : CertTimes,
     Issuer : {"cluster-ca", "wrong-ca"}]

\* The configured CertificateAuthority: PEM blocks that are the cluster CA
\* certificate or not a certificate at all.
CABundles ==
    { << >>, <<"garbage">>, <<"cluster-ca">>, <<"garbage", "cluster-ca">> }

\* caCertPool.AppendCertsFromPEM: the certificates found, and whether any was.
CertPoolOf(bundle) == { bundle[i] : i \in 1..Len(bundle) } \ {"garbage"}

AppendCertsFromPEM(bundle) == CertPoolOf(bundle) # {}

\* Mutant: a certificate whose validity starts this instant is not yet valid.
TimeBefore_OrEqual(t, u) == t <= u

\* time.Time.Before and After.
TimeBefore(t, u) == t < u

TimeAfter(t, u) == t > u

\* cert.Verify(opts) with the pool as roots.
Verify(cert, pool) == cert.Issuer \in pool

CertInit ==
    /\ IdleExcept("cert")
    /\ cFile \in CertFiles
    /\ cCA \in CABundles
    /\ cPc = "start"
    /\ cRemediationErr = NoError
    /\ cRet = NoError
    /\ cLog = << >>

CertFrame == UNCHANGED <<cFile, cCA>> /\ FrameExcept("cert")

\* remedationErr = validation.WithRemediation(err, ...); return remedationErr:
\* the deferred informer.Done runs next.
ReturnRemediation(err) ==
    /\ cRemediationErr' = err
    /\ cPc' = "deferred"
    /\ UNCHANGED <<cRet, cLog>>

CheckPassed(pc) ==
    /\ cPc' = pc
    /\ UNCHANGED <<cRemediationErr, cRet, cLog>>

InformerStarting ==
    /\ cPc = "start"
    /\ cLog' = Append(cLog, [call |-> "Starting", err |-> NoError])
    /\ cPc' = "read"
    /\ UNCHANGED <<cRemediationErr, cRet>>
    /\ CertFrame

ReadFile ==
    /\ cPc = "read"
    /\ IF cFile.readable THEN CheckPassed("decode")
       ELSE ReturnRemediation(Wrap("failed to read kubelet server certificate",
                                   <<"no such file or directory">>))
    /\ CertFrame

PemDecode ==
    /\ cPc = "decode"
    /\ IF cFile.pem THEN CheckPassed("parse")
       ELSE ReturnRemediation(<<"failed to parse kubelet server certificate">>)
    /\ CertFrame

ParseCertificate ==
    /\ cPc = "parse"
    /\ IF cFile.der THEN CheckPassed("not_before")
       ELSE ReturnRemediation(Wrap("failed to parse kubelet server certificate",
                                   <<"x509: malformed certificate">>))
    /\ CertFrame

CheckNotBefore ==
    /\ cPc = "not_before"
    /\ IF TimeBefore(Now, cFile.NotBefore)
       THEN ReturnRemediation(<<"kubelet server certificate is not yet valid">>)
       ELSE CheckPassed("not_after")
    /\ CertFrame

CheckNotAfter ==
    /\ cPc = "not_after"
    /\ IF TimeAfter(Now, cFile.NotAfter)
       THEN ReturnRemediation(<<"kubelet server certificate has expired">>)
       ELSE CheckPassed("ca_pool")
    /\ CertFrame

LoadClusterCA ==
    /\ cPc = "ca_pool"
    /\ IF ~AppendCertsFromPEM(cCA)
       THEN ReturnRemediation(<<"failed to parse cluster CA certificate">>)
       ELSE CheckPassed("verify")
    /\ CertFrame

VerifyCertificate ==
    /\ cPc = "verify"
    /\ IF Verify(cFile, CertPoolOf(cCA))
       THEN CheckPassed("deferred")
       ELSE ReturnRemediation(
                Wrap("kubelet server certificate is not signed by the cluster CA",
                     <<"x509: certificate signed by unknown authority">>))
    /\ CertFrame

\* The deferred call, then Run returns what its return statement evaluated.
InformerDone ==
    /\ cPc = "deferred"
    /\ cLog' = Append(cLog, [call |-> "Done", err |-> cRemediationErr])
    /\ cRet' = cRemediationErr
    /\ cPc' = "returned"
    /\ UNCHANGED cRemediationErr
    /\ CertFrame

CertNext ==
    \/ InformerStarting
    \/ ReadFile
    \/ PemDecode
    \/ ParseCertificate
    \/ CheckNotBefore
    \/ CheckNotAfter
    \/ LoadClusterCA
    \/ VerifyCertificate
    \/ InformerDone

CertSpec == CertInit /\ [][CertNext]_vars

(***************************************************************************)
(* FlakyCode.It: the retry loop, the body's goroutine with its deferred    *)
(* recover, the cleanups of a failed attempt, and ginkgo's cleanups at the *)
(* end of the test.                                                        *)
(***************************************************************************)
\* Largest flakeAttempts, cleanups one attempt registers, and calls of a
\* FailHandler that returns within one attempt.
MaxFlakeAttempts == 3

MaxCleanups == 2

MaxHandlerCalls == 2

FlakyEvent(ev, id) == [ev |-> ev, attempt |-> kAttempt, id |-> id]

\* Mutant: the handler of RetryableExpect retries on the last attempt too.
WillRetry_Always(attempt, maxAttempts) == attempt < maxAttempts

\* newRetryable: attempt < maxAttempts-1.
WillRetry(attempt, maxAttempts) == attempt < maxAttempts - 1

FlakyInit ==
    /\ IdleExcept("flaky")
    /\ kFlakeAttempts \in 0..MaxFlakeAttempts
    /\ kHandlerPanics \in BOOLEAN
    /\ kAttempt = 0
    /\ kPc = "loop"
    /\ kPanic = "none"
    /\ kRetryableError = FALSE
    /\ kPanicableError = FALSE
    /\ kRegistered = 0
    /\ kPos = 0
    /\ kRan = {}
    /\ kGlobal = << >>
    /\ kHandlerCalls = 0
    /\ kTestFailed = FALSE
    /\ kLog = << >>

FlakyFrame == UNCHANGED <<kFlakeAttempts, kHandlerPanics>> /\ FrameExcept("flaky")

\* The goroutine leaves the body, returning or panicking; its deferred calls
\* run next.
LeaveBody(panic) ==
    /\ kPanic' = panic
    /\ kPc' = "recover"

\* for attempt := range flakeAttempts: a new cleanups slice and retryable,
\* then the goroutine reaches By(...) and the body.
StartAttempt ==
    /\ kPc = "loop"
    /\ IF kAttempt < kFlakeAttempts
       THEN /\ kPc' = "body"
            /\ kLog' = Append(kLog, FlakyEvent("body", 0))
       ELSE /\ kPc' = "returned"
            /\ UNCHANGED kLog
    /\ kRegistered' = 0
    /\ kRetryableError' = FALSE
    /\ kPanicableError' = FALSE
    /\ kHandlerCalls' = 0
    /\ UNCHANGED <<kAttempt, kPanic, kPos, kRan, kGlobal, kTestFailed>>
    /\ FlakyFrame

\* flakeRun.DeferCleanup(cleanup): appended to cleanups and registered with
\* ginkgo.
BodyDeferCleanup ==
    /\ kPc = "body"
    /\ kRegistered < MaxCleanups
    /\ kRegistered' = kRegistered + 1
    /\ kGlobal' = Append(kGlobal, <<kAttempt, kRegistered + 1>>)
    /\ kLog' = Append(kLog, FlakyEvent("DeferCleanup", kRegistered + 1))
    /\ UNCHANGED <<kAttempt, kPc, kPanic, kRetryableError, kPanicableError, kPos,
                   kRan, kHandlerCalls, kTestFailed>>
    /\ FlakyFrame

\* flakeRun.RetryableExpect(...) fails: the fail handler of newRetryable.
BodyRetryableExpectFails ==
    /\ kPc = "body"
    /\ kHandlerCalls < MaxHandlerCalls
    /\ IF WillRetry(kAttempt, kFlakeAttempts)
       THEN /\ LeaveBody("retryable")
            /\ kLog' = Append(kLog, FlakyEvent("RetryableExpect failed", 0))
            /\ UNCHANGED <<kHandlerCalls, kTestFailed>>
       ELSE /\ kLog' = kLog \o << FlakyEvent("RetryableExpect failed", 0),
                                  FlakyEvent("FailHandler", 0) >>
            /\ kHandlerCalls' = kHandlerCalls + 1
            /\ IF kHandlerPanics
               THEN /\ LeaveBody("ginkgo")
                    /\ kTestFailed' = TRUE
               ELSE UNCHANGED <<kPc, kPanic, kTestFailed>>
    /\ UNCHANGED <<kAttempt, kRetryableError, kPanicableError, kRegistered, kPos,
                   kRan, kGlobal>>
    /\ FlakyFrame

\* A plain Expect of the body fails: ginkgo's Fail stores the failure and
\* panics with a GinkgoError.
BodyExpectFails ==
    /\ kPc = "body"
    /\ LeaveBody("ginkgo")
    /\ kTestFailed' = TRUE
    /\ kLog' = Append(kLog, FlakyEvent("Expect failed", 0))
    /\ UNCHANGED <<kAttempt, kRetryableError, kPanicableError, kRegistered, kPos,
                   kRan, kGlobal, kHandlerCalls>>
    /\ FlakyFrame

\* The body panics with something that is not a GinkgoError.
BodyPanics ==
    /\ kPc = "body"
    /\ LeaveBody("unknown")
    /\ kLog' = Append(kLog, FlakyEvent("panic", 0))
    /\ UNCHANGED <<kAttempt, kRetryableError, kPanicableError, kRegistered, kPos,
                   kRan, kGlobal, kHandlerCalls, kTestFailed>>
    /\ FlakyFrame

BodyReturns ==
    /\ kPc = "body"
    /\ LeaveBody("none")
    /\ kLog' = Append(kLog, FlakyEvent("body returned", 0))
    /\ UNCHANGED <<kAttempt, kRetryableError, kPanicableError, kRegistered, kPos,
                   kRan, kGlobal, kHandlerCalls, kTestFailed>>
    /\ FlakyFrame

\* defer retry.recover(), defer GinkgoRecover(), defer wg.Done(): an unknown
\* panic is raised again and GinkgoRecover fails the test with it.
Recover ==
    /\ kPc = "recover"
    /\ kRetryableError' = (kPanic = "retryable")
    /\ kPanicableError' = (kPanic = "ginkgo")
    /\ kTestFailed' = (kTestFailed \/ kPanic = "unknown")
    /\ kPanic' = "none"
    /\ kPc' = "waited"
    /\ UNCHANGED <<kAttempt, kRegistered, kPos, kRan, kGlobal, kHandlerCalls, kLog>>
    /\ FlakyFrame

\* After wg.Wait(): Expect(retry.panicableError).NotTo(HaveOccurred()), the
\* return of a clean attempt, or the way to the cleanups of a failed one.
AfterWait ==
    /\ kPc = "waited"
    /\ IF kPanicableError
       THEN /\ kPc' = "failed"
            /\ kTestFailed' = TRUE
            /\ UNCHANGED kPos
       ELSE IF ~kRetryableError
       THEN /\ kPc' = "returned"
            /\ UNCHANGED <<kPos, kTestFailed>>
       ELSE /\ kPc' = "cleanups"
            /\ kPos' = kRegistered
            /\ UNCHANGED kTestFailed
    /\ UNCHANGED <<kAttempt, kPanic, kRetryableError, kPanicableError, kRegistered,
                   kRan, kGlobal, kHandlerCalls, kLog>>
    /\ FlakyFrame

\* Mutant: the closure runs its cleanup whatever the ran flag says.
Onced_Always(cleanup) ==
    /\ kRan' = kRan \cup {cleanup}
    /\ kLog' = Append(kLog, [ev |-> "cleanup", attempt |-> cleanup[1], id |-> cleanup[2]])

\* onced: the cleanup runs unless its ran flag is set.
Onced(cleanup) ==
    /\ kRan' = kRan \cup {cleanup}
    /\ kLog' = Append(kLog, [ev |-> IF cleanup \in kRan THEN "cleanup skipped" ELSE "cleanup",
                             attempt |-> cleanup[1], id |-> cleanup[2]])

\* for _, f := range slices.Backward(cleanups) { f(ctx) }
RunCleanup ==
    /\ kPc = "cleanups"
    /\ kPos > 0
    /\ Onced(<<kAttempt, kPos>>)
    /\ kPos' = kPos - 1
    /\ UNCHANGED <<kAttempt, kPc, kPanic, kRetryableError, kPanicableError,
                   kRegistered, kGlobal, kHandlerCalls, kTestFailed>>
    /\ FlakyFrame

\* time.Sleep and the next iteration.
NextAttempt ==
    /\ kPc = "cleanups"
    /\ kPos = 0
    /\ kAttempt' = kAttempt + 1
    /\ kPc' = "loop"
    /\ UNCHANGED <<kPanic, kRetryableError, kPanicableError, kRegistered, kPos,
                   kRan, kGlobal, kHandlerCalls, kTestFailed, kLog>>
    /\ FlakyFrame

\* At the end of the test ginkgo runs what DeferCleanup registered, last
\* registered first.
GinkgoCleanup ==
    /\ kPc \in {"returned", "failed"}
    /\ kGlobal # << >>
    /\ Onced(kGlobal[Len(kGlobal)])
    /\ kGlobal' = SubSeq(kGlobal, 1, Len(kGlobal) - 1)
    /\ UNCHANGED <<kAttempt, kPc, kPanic, kRetryableError, kPanicableError,
                   kRegistered, kPos, kHandlerCalls, kTestFailed>>
    /\ FlakyFrame

FlakyNext ==
    \/ StartAttempt
    \/ BodyDeferCleanup
    \/ BodyRetryableExpectFails
    \/ BodyExpectFails
    \/ BodyPanics
    \/ BodyReturns
    \/ Recover
    \/ AfterWait
    \/ RunCleanup
    \/ NextAttempt
    \/ GinkgoCleanup

FlakySpec == FlakyInit /\ [][FlakyNext]_vars

(***************************************************************************)
(* TestCleanup: specs that call Register, ginkgo running each spec's       *)
(* DeferCleanup closures after the spec, and DeferAll's closure at the end.*)
(***************************************************************************)
\* Specs of the container and Register calls of one spec.
NumSpecs == 3

MaxRegistered == 2

\* Mutant: the closure drops the oldest pending function.
RemoveAt_First(s, index) == SubSeq(s, 2, Len(s))

\* append(t.cleanups[:index], t.cleanups[index+1:]...) with index from 0.
RemoveAt(s, index) == SubSeq(s, 1, index) \o SubSeq(s, index + 2, Len(s))

\* The slice expression panics when index+1 exceeds len(t.cleanups).
RemovePanics(s, index) == index + 1 > Len(s)

TestCleanupInit ==
    /\ IdleExcept("cleanup")
    /\ tCleanups = << >>
    /\ tDeferred = << >>
    /\ tOwner = << >>
    /\ tOutcome = << >>
    /\ tSpec = 1
    /\ tPc = "spec"
    /\ tPos = 0
    /\ tLog = << >>

\* TestCleanup.Register(f) called by the running spec.
Register ==
    /\ tPc = "spec"
    /\ Len(tDeferred) < MaxRegistered
    /\ LET f == Len(tOwner) + 1
           index == Len(tCleanups)
       IN /\ tCleanups' = Append(tCleanups, f)
          /\ tDeferred' = Append(tDeferred, [f |-> f, index |-> index])
          /\ tOwner' = Append(tOwner, tSpec)
    /\ UNCHANGED <<tOutcome, tSpec, tPc, tPos, tLog>>
    /\ FrameExcept("cleanup")

\* The spec ends, passed or failed; ginkgo turns to its DeferCleanup closures.
SpecEnds ==
    /\ tPc = "spec"
    /\ \E failed \in BOOLEAN : tOutcome' = Append(tOutcome, failed)
    /\ tPc' = "spec_cleanup"
    /\ UNCHANGED <<tCleanups, tDeferred, tOwner, tSpec, tPos, tLog>>
    /\ FrameExcept("cleanup")

\* ginkgo runs the closure registered last: if CurrentSpecReport().Failed()
\* it removes cleanups[index] and calls f.
RunDeferred ==
    /\ tPc = "spec_cleanup"
    /\ tDeferred # << >>
    /\ LET c == tDeferred[Len(tDeferred)]
       IN IF ~tOutcome[tSpec]
          THEN UNCHANGED <<tCleanups, tLog, tPc>>
          ELSE IF RemovePanics(tCleanups, c.index)
          THEN /\ tPc' = "panic"
               /\ UNCHANGED <<tCleanups, tLog>>
          ELSE /\ tCleanups' = RemoveAt(tCleanups, c.index)
               /\ tLog' = Append(tLog, [f |-> c.f, after |-> tSpec])
               /\ UNCHANGED tPc
    /\ tDeferred' = SubSeq(tDeferred, 1, Len(tDeferred) - 1)
    /\ UNCHANGED <<tOwner, tOutcome, tSpec, tPos>>
    /\ FrameExcept("cleanup")

\* The next spec starts, or after the last one the closure of DeferAll.
NextSpec ==
    /\ tPc = "spec_cleanup"
    /\ tDeferred = << >>
    /\ IF tSpec < NumSpecs
       THEN /\ tSpec' = tSpec + 1
            /\ tPc' = "spec"
            /\ UNCHANGED tPos
       ELSE /\ tPc' = "defer_all"
            /\ tPos' = Len(tCleanups)
            /\ UNCHANGED tSpec
    /\ UNCHANGED <<tCleanups, tDeferred, tOwner, tOutcome, tLog>>
    /\ FrameExcept("cleanup")

\* for i := len(t.cleanups) - 1; i >= 0; i-- { t.cleanups[i](ctx) }
DeferAll ==
    /\ tPc = "defer_all"
    /\ IF tPos > 0
       THEN /\ tLog' = Append(tLog, [f |-> tCleanups[tPos], after |-> 0])
            /\ tPos' = tPos - 1
            /\ UNCHANGED tPc
       ELSE /\ tPc' = "done"
            /\ UNCHANGED <<tLog, tPos>>
    /\ UNCHANGED <<tCleanups, tDeferred, tOwner, tOutcome, tSpec>>
    /\ FrameExcept("cleanup")

TestCleanupNext ==
    \/ Register
    \/ SpecEnds
    \/ RunDeferred
    \/ NextSpec
    \/ DeferAll

TestCleanupSpec == TestCleanupInit /\ [][TestCleanupNext]_vars

(***************************************************************************)
(* The polling waits of the e2e kubernetes helpers: each condition call of *)
(* wait.PollUntilContextTimeout makes one API call.                        *)
(***************************************************************************)
\* Condition calls before the timeout is certain, and invocations in a row.
MaxPolls == 6

NumInvocations == 2

WaitKinds ==
    {"WaitForNode", "WaitForHybridNodeToBeReady", "WaitForHybridNodeToBeNotReady",
     "waitForPodToBeRunning", "WaitForNodeToHaveVersion"}

\* if consecutiveErrors > 3
ErrorBudget == 3

\* Mutant: the count of the previous invocation is carried over.
InitialCount_Leaked(previous) == previous

\* consecutiveErrors := 0
InitialCount(previous) == 0

\* The message the condition wraps the API error in.
ConditionMessage(kind) ==
    CASE kind = "WaitForNode" -> "listing nodes when looking for node with IP"
      [] kind = "waitForPodToBeRunning" -> "getting test pod"
      [] OTHER -> "getting hybrid node"

\* What the wait function makes of the error of PollUntilContextTimeout.
WaitError(kind, err) ==
    CASE kind = "WaitForHybridNodeToBeReady" -> Wrap("waiting for node to be ready", err)
      [] kind = "WaitForHybridNodeToBeNotReady" ->
             Wrap("waiting for node to be not ready", err)
      [] kind = "WaitForNodeToHaveVersion" ->
             Wrap("waiting for node kubernetes version to be upgraded", err)
      [] OTHER -> err

PollInit ==
    /\ IdleExcept("poll")
    /\ pKind \in WaitKinds
    /\ pInvocation = 1
    /\ pPc = "poll"
    /\ pConsecutiveErrors = InitialCount(0)
    /\ pPolls = 0
    /\ pTrailingFailures = 0
    /\ pErr = NoError

PollFrame == UNCHANGED <<pKind, pInvocation>> /\ FrameExcept("poll")

WaitReturns(err) ==
    /\ pPc' = "returned"
    /\ pErr' = err

\* The API call returns an error (other than the NotFound that
\* WaitForHybridNodeToBeReady looks for first).
ApiCallFails ==
    /\ pPc = "poll"
    /\ pPolls < MaxPolls
    /\ pPolls' = pPolls + 1
    /\ pTrailingFailures' = pTrailingFailures + 1
    /\ pConsecutiveErrors' = pConsecutiveErrors + 1
    /\ IF pConsecutiveErrors + 1 > ErrorBudget
       THEN WaitReturns(WaitError(pKind, Wrap(ConditionMessage(pKind), ApiError)))
       ELSE UNCHANGED <<pPc, pErr>>
    /\ PollFrame

\* WaitForHybridNodeToBeReady: apierrors.IsNotFound(err), polling continues.
ApiCallNotFound ==
    /\ pPc = "poll"
    /\ pKind = "WaitForHybridNodeToBeReady"
    /\ pPolls < MaxPolls
    /\ pPolls' = pPolls + 1
    /\ pTrailingFailures' = pTrailingFailures + 1
    /\ UNCHANGED <<pConsecutiveErrors, pPc, pErr>>
    /\ PollFrame

\* The API call returns no error; the condition is met or not yet.
ApiCallSucceeds ==
    /\ pPc = "poll"
    /\ pPolls < MaxPolls
    /\ pPolls' = pPolls + 1
    /\ pTrailingFailures' = 0
    /\ pConsecutiveErrors' = 0
    /\ \E done \in BOOLEAN :
          IF done THEN WaitReturns(NoError) ELSE UNCHANGED <<pPc, pErr>>
    /\ PollFrame

\* The timeout or the caller's context ends the polling.
PollTimesOut ==
    /\ pPc = "poll"
    /\ WaitReturns(WaitError(pKind, <<"context deadline exceeded">>))
    /\ UNCHANGED <<pConsecutiveErrors, pPolls, pTrailingFailures>>
    /\ PollFrame

\* The same wait function is called again.
WaitAgain ==
    /\ pPc = "returned"
    /\ pInvocation < NumInvocations
    /\ pInvocation' = pInvocation + 1
    /\ pPc' = "poll"
    /\ pConsecutiveErrors' = InitialCount(pConsecutiveErrors)
    /\ pPolls' = 0
    /\ pTrailingFailures' = 0
    /\ pErr' = NoError
    /\ UNCHANGED pKind
    /\ FrameExcept("poll")

PollNext ==
    \/ ApiCallFails
    \/ ApiCallNotFound
    \/ ApiCallSucceeds
    \/ PollTimesOut
    \/ WaitAgain

PollSpec == PollInit /\ [][PollNext]_vars

(***************************************************************************)
(* waitForManagedInstanceUnregistered: the function waiting in its select  *)
(* and the goroutine that polls DescribeInstanceInformation and sends on   *)
(* the unbuffered channels statusCh and errCh.                             *)
(***************************************************************************)
\* Describe calls made while the context is live.
MaxDescribes == 6

UnregisterInit ==
    /\ IdleExcept("unregister")
    /\ uMain = "select"
    /\ uGo = "describe"
    /\ uCtx = "live"
    /\ uConsecutiveErrors = 0
    /\ uCalls = 0
    /\ uSawEmpty = FALSE
    /\ uRet = NoError

\* The goroutine calls DescribeInstanceInformation; with the context done the
\* call fails.
PollDescribe ==
    /\ uGo = "describe"
    /\ uCtx = "done" \/ uCalls < MaxDescribes
    /\ uCalls' = IF uCtx = "done" THEN uCalls ELSE uCalls + 1
    /\ \E answer \in IF uCtx = "done" THEN {"error"} ELSE {"error", "empty", "registered"} :
          CASE answer = "error" ->
                   /\ uConsecutiveErrors' = uConsecutiveErrors + 1
                   /\ uGo' = IF uConsecutiveErrors + 1 > ErrorBudget \/ uCtx = "done"
                             THEN "send_err" ELSE "sleep"
                   /\ UNCHANGED uSawEmpty
            [] answer = "empty" ->
                   /\ uGo' = "send_status"
                   /\ uSawEmpty' = TRUE
                   /\ UNCHANGED uConsecutiveErrors
            [] OTHER ->
                   /\ uConsecutiveErrors' = 0
                   /\ uGo' = "sleep"
                   /\ UNCHANGED uSawEmpty
    /\ UNCHANGED <<uMain, uCtx, uRet>>
    /\ FrameExcept("unregister")

\* time.Sleep(5 * time.Second)
PollSleep ==
    /\ uGo = "sleep"
    /\ uGo' = "describe"
    /\ UNCHANGED <<uMain, uCtx, uConsecutiveErrors, uCalls, uSawEmpty, uRet>>
    /\ FrameExcept("unregister")

\* The 3-minute timeout or the caller's context expires.
ContextDone ==
    /\ uCtx = "live"
    /\ uCtx' = "done"
    /\ UNCHANGED <<uMain, uGo, uConsecutiveErrors, uCalls, uSawEmpty, uRet>>
    /\ FrameExcept("unregister")

\* The function returns err; its deferred cancel() ends the context.
UnregisterReturns(err) ==
    /\ uMain' = "returned"
    /\ uRet' = err
    /\ uCtx' = "done"

\* case <-statusCh: the send of the goroutine meets the receive; the goroutine
\* returns and closes both channels.
ReceiveStatus ==
    /\ uMain = "select"
    /\ uGo = "send_status"
    /\ uGo' = "exited"
    /\ UnregisterReturns(NoError)
    /\ UNCHANGED <<uConsecutiveErrors, uCalls, uSawEmpty>>
    /\ FrameExcept("unregister")

\* case err := <-errCh
ReceiveErr ==
    /\ uMain = "select"
    /\ uGo = "send_err"
    /\ uGo' = "exited"
    /\ UnregisterReturns(<<"failed to describe instance information">>)
    /\ UNCHANGED <<uConsecutiveErrors, uCalls, uSawEmpty>>
    /\ FrameExcept("unregister")

\* case <-ctx.Done()
ReceiveDone ==
    /\ uMain = "select"
    /\ uCtx = "done"
    /\ UnregisterReturns(<<"timed out waiting for instance to unregister">>)
    /\ UNCHANGED <<uGo, uConsecutiveErrors, uCalls, uSawEmpty>>
    /\ FrameExcept("unregister")

UnregisterNext ==
    \/ PollDescribe
    \/ PollSleep
    \/ ContextDone
    \/ ReceiveStatus
    \/ ReceiveErr
    \/ ReceiveDone

UnregisterSpec == UnregisterInit /\ [][UnregisterNext]_vars

(***************************************************************************)
(* CleanNode.Run, one action per step.                                     *)
(***************************************************************************)
\* NodeadmOS.Name() of the e2e operating systems; BottleRocket.Name() is
\* "bottlerocket-" + architecture in os/bottlerocket.go and "br-" + architecture
\* in the other definition of the type.
OSNames ==
    { <<family, "-", arch>> :
        family \in {"ubuntu2004", "ubuntu2204", "ubuntu2404", "rhel8", "rhel9", "al23",
                    "bottlerocket", "br"},
        arch \in {"amd64", "arm64"} }

\* strings.Contains(name, part) for a part that is one of the name's pieces.
Contains(name, part) == \E i \in 1..Len(name) : name[i] = part

\* if strings.Contains(u.OS.Name(), "bottlerocket") { StopKubelet } else { RunNodeadmUninstall }
UninstallStep(name) ==
    IF Contains(name, "bottlerocket") THEN "StopKubelet" ELSE "RunNodeadmUninstall"

CleanNodeInit ==
    /\ IdleExcept("cleannode")
    /\ nOS \in OSNames
    /\ nPc = "WaitForNode"
    /\ nLog = << >>
    /\ nRet = NoError

\* The step succeeds and Run goes on to next, or it fails and Run returns err.
RunStep(step, next, err) ==
    /\ nPc = step
    /\ \E ok \in BOOLEAN :
          /\ nLog' = Append(nLog, [step |-> step, ok |-> ok])
          /\ IF ok THEN /\ nPc' = next
                        /\ UNCHANGED nRet
             ELSE /\ nPc' = "returned"
                  /\ nRet' = err
    /\ UNCHANGED nOS
    /\ FrameExcept("cleannode")

\* kubernetes.WaitForNode returns a node whenever it returns no error.
WaitForNode == RunStep("WaitForNode", "CordonNode", <<"WaitForNode">>)

CordonNode == RunStep("CordonNode", "DrainNode", <<"CordonNode">>)

DrainNode == RunStep("DrainNode", UninstallStep(nOS), <<"DrainNode">>)

StopKubelet ==
    RunStep("StopKubelet", "WaitForHybridNodeToBeNotReady", <<"StopKubelet">>)

RunNodeadmUninstall ==
    RunStep("RunNodeadmUninstall", "WaitForHybridNodeToBeNotReady", <<"RunNodeadmUninstall">>)

WaitForHybridNodeToBeNotReady ==
    RunStep("WaitForHybridNodeToBeNotReady", "DeleteNode", <<"WaitForHybridNodeToBeNotReady">>)

DeleteNode == RunStep("DeleteNode", "VerifyUninstall", <<"DeleteNode">>)

\* if err = u.Verifier.VerifyUninstall(...); err != nil { return nil }
VerifyUninstall == RunStep("VerifyUninstall", "returned", NoError)

CleanNodeNext ==
    \/ WaitForNode
    \/ CordonNode
    \/ DrainNode
    \/ StopKubelet
    \/ RunNodeadmUninstall
    \/ WaitForHybridNodeToBeNotReady
    \/ DeleteNode
    \/ VerifyUninstall

CleanNodeSpec == CleanNodeInit /\ [][CleanNodeNext]_vars

(***************************************************************************)
(* extractClusterName, one action per statement.                           *)
(***************************************************************************)
MaxArnLen == 8

\* The characters of an ARN: the two separators and one other character.
ArnChars == {"a", ":", "/"}

ArnStrings == UNION { [1..n -> ArnChars] : n \in 0..MaxArnLen }

\* strings.Index(s, sep) for a separator of one character; 0 when absent.
IndexOf(s, sep) ==
    IF \E i \in 1..Len(s) : s[i] = sep
    THEN CHOOSE i \in 1..Len(s) : s[i] = sep /\ \A j \in 1..(i - 1) : s[j] # sep
    ELSE 0

\* strings.Split(s, sep) for a separator of one character: the pieces
\* between the separators, one more piece than there are separators.
RECURSIVE Split(_, _)
Split(s, sep) ==
    IF IndexOf(s, sep) = 0 THEN <<s>>
    ELSE <<SubSeq(s, 1, IndexOf(s, sep) - 1)>>
            \o Split(SubSeq(s, IndexOf(s, sep) + 1, Len(s)), sep)

ExtractInit ==
    /\ IdleExcept("extract")
    /\ eArn \in ArnStrings
    /\ ePc = "splitColon"
    /\ eParts = << >>
    /\ eRet = << >>

\* parts := strings.Split(stackARN, ":"); if len(parts) < 6 { return "" }
SplitColon ==
    /\ ePc = "splitColon"
    /\ eParts' = Split(eArn, ":")
    /\ ePc' = IF Len(eParts') < 6 THEN "returned" ELSE "splitSlash"
    /\ UNCHANGED <<eArn, eRet>>
    /\ FrameExcept("extract")

\* parts = strings.Split(parts[5], "/"); if len(parts) < 1 { return "" }
SplitSlash ==
    /\ ePc = "splitSlash"
    /\ eParts' = Split(eParts[6], "/")
    /\ ePc' = IF Len(eParts') < 1 THEN "returned" ELSE "index"
    /\ UNCHANGED <<eArn, eRet>>
    /\ FrameExcept("extract")

\* return parts[1]: the second element, a run-time panic (index out of
\* range) when the slice has one element.
IndexSecond ==
    /\ ePc = "index"
    /\ IF Len(eParts) >= 2
       THEN /\ eRet' = eParts[2]
            /\ ePc' = "returned"
       ELSE /\ ePc' = "panicked"
            /\ UNCHANGED eRet
    /\ UNCHANGED <<eArn, eParts>>
    /\ FrameExcept("extract")

ExtractNext ==
    \/ SplitColon
    \/ SplitSlash
    \/ IndexSecond

ExtractSpec == ExtractInit /\ [][ExtractNext]_vars

(***************************************************************************)
(* Claims about the filter policy (checked under FilterSpec).              *)
(***************************************************************************)
\* The resource's cluster tag value as the claims speak of it: the value of the
\* first entry carrying the reserved key, scanning from the head; "" when absent.
RECURSIVE ClusterTagOf(_)
ClusterTagOf(tags) ==
    IF tags = << >> THEN EmptyStr
    ELSE IF Head(tags).Key = TestClusterTagKey THEN Head(tags).Value
    ELSE ClusterTagOf(Tail(tags))

NoClusterTagEntry(tags) == \A i \in 1..Len(tags) : tags[i].Key # TestClusterTagKey

\* Age-filtering mode with a tag that passes the cluster check.
AgeModeMatched ==
    /\ fInput.ClusterName = EmptyStr
    /\ ClusterTagOf(fResource.Tags) # EmptyStr
    /\ \/ fInput.AllClusters
       \/ /\ fInput.ClusterNamePrefix # EmptyStr
          /\ HasPrefix(ClusterTagOf(fResource.Tags), fInput.ClusterNamePrefix)

\* C1: shouldDeleteResource returns false for every resource whose tags hold no
\* entry with the reserved cluster tag key, or whose cluster tag value is the
\* empty string, whatever the filter input and the creation time.
C1_NoClusterTagNeverDeleted ==
    (/\ fPc = "decided"
     /\ \/ NoClusterTagEntry(fResource.Tags)
        \/ ClusterTagOf(fResource.Tags) = EmptyStr)
    => fShouldDelete = FALSE

\* C1 witness: an untagged, old resource evaluated under AllClusters (the filter
\* that matches everything else) has been decided.
C1_Witness ==
    /\ fPc = "decided"
    /\ NoClusterTagEntry(fResource.Tags)
    /\ Len(fResource.Tags) > 0
    /\ fInput.AllClusters
    /\ fInput.ClusterName = EmptyStr
    /\ Since(fResource.CreationTime) > fInput.InstanceAgeThreshold
    /\ fShouldDelete = FALSE

\* C3: with a non-empty ClusterName the result is true iff the cluster tag value
\* equals ClusterName exactly; creation time, threshold, prefix and AllClusters
\* play no part.
C3_ExactNameOnlyTagEquality ==
    (fPc = "decided" /\ fInput.ClusterName # EmptyStr)
    => fShouldDelete = (ClusterTagOf(fResource.Tags) = fInput.ClusterName)

\* C3 witness: a resource created this instant, with a matching tag, is eligible
\* although the threshold is not exceeded and no prefix or AllClusters is set.
C3_Witness ==
    /\ fPc = "decided"
    /\ fInput.ClusterName # EmptyStr
    /\ ClusterTagOf(fResource.Tags) = fInput.ClusterName
    /\ fResource.CreationTime = Now
    /\ fInput.InstanceAgeThreshold > 0
    /\ ~fInput.AllClusters
    /\ fInput.ClusterNamePrefix = EmptyStr
    /\ fShouldDelete = TRUE

C6_PreCheckAgrees ==
    /\ (fPc # "start" /\ fInput.ClusterName # EmptyStr) => fOldEnough = TRUE
    /\ (fPc # "start" /\ fInput.ClusterName = EmptyStr)
        => fOldEnough = (Since(fResource.CreationTime) > fInput.InstanceAgeThreshold)
    /\ (fPc = "decided" /\ fShouldDelete = TRUE) => fOldEnough = TRUE

\* C6 witness: in exact-name mode a resource younger than the threshold passed
\* the pre-check and was then accepted.
C6_Witness ==
    /\ fPc = "decided"
    /\ fInput.ClusterName # EmptyStr
    /\ Since(fResource.CreationTime) < fInput.InstanceAgeThreshold
    /\ fOldEnough = TRUE
    /\ fShouldDelete = TRUE

(***************************************************************************)
(* Claims about the Sweeper (checked under SweeperSpec).                   *)
(***************************************************************************)
CallsOf(op) == { i \in 1..Len(sLog) : sLog[i].op = op }
DeleteCalls == CallsOf("DeregisterManagedInstance") \cup CallsOf("DeleteActivation")
ActivationCalls == CallsOf("DescribeActivations") \cup CallsOf("DeleteActivation")

InstanceEligible(id) ==
    /\ sInstances[id].ResourceType = managedInstanceResourceType
    /\ ClusterTagOf(sInstances[id].Tags) # EmptyStr
    /\ shouldDeleteResource([CreationTime |-> sInstances[id].RegistrationDate,
                             Tags |-> sInstances[id].Tags], sInput)

ActivationEligible(id) ==
    /\ ClusterTagOf(sActivations[id].Tags) # EmptyStr
    /\ shouldDeleteResource([CreationTime |-> sActivations[id].CreatedDate,
                             Tags |-> sActivations[id].Tags], sInput)

\* C2: every managed instance passed to DeregisterManagedInstance and every
\* activation passed to DeleteActivation is a listed resource on which
\* shouldDeleteResource is true for the run's FilterInput; none of them lacks a
\* non-empty cluster tag.
C2_OnlyEligibleDeleted ==
    /\ \A i \in CallsOf("DeregisterManagedInstance") :
          /\ sLog[i].arg \in InstanceIDs
          /\ InstanceEligible(sLog[i].arg)
    /\ \A i \in CallsOf("DeleteActivation") :
          /\ sLog[i].arg \in ActivationIDs
          /\ ActivationEligible(sLog[i].arg)

\* C2 witness: a run that deregistered an instance and deleted an activation
\* finished while an instance without a non-empty cluster tag is still
\* registered.
C2_Witness ==
    /\ sPc = "done"
    /\ sErr = NoError
    /\ CallsOf("DeregisterManagedInstance") # {}
    /\ CallsOf("DeleteActivation") # {}
    /\ \E id \in sRegistered : ClusterTagOf(sInstances[id].Tags) = EmptyStr

\* C7: with DryRun the run still lists managed instances and activations but
\* issues no deregister and no delete call, leaves the resources as they were,
\* and any error it returns comes from a listing.
C7_DryRunDeletesNothing ==
    (sPc # "idle" /\ sInput.DryRun)
    => /\ DeleteCalls = {}
       /\ sRegistered = InstanceIDs
       /\ sActive = ActivationIDs
       /\ (sPc = "done" /\ sErr = NoError)
            => /\ CallsOf("GetResources") # {}
               /\ CallsOf("DescribeInstanceInformation") # {}
               /\ CallsOf("DescribeActivations") # {}
       /\ (sPc = "done" /\ sErr # NoError)
            => sErr[2] \in {"listing managed instances", "listing activations"}

\* C7 witness: a dry run finished without error although an instance and an
\* activation were eligible for deletion.
C7_Witness ==
    /\ sPc = "done"
    /\ sInput.DryRun
    /\ sErr = NoError
    /\ \E id \in InstanceIDs : InstanceEligible(id)
    /\ \E id \in ActivationIDs : ActivationEligible(id)

\* C8 (as stated): the activation phase is attempted even if the
\* managed-instance phase fails.
C8_BothPhasesAttempted ==
    (sPc = "done" /\ sErr # NoError /\ sErr[1] = "cleaning up SSM managed instances")
    => ActivationCalls # {}

\* C8 (amended): Run stops at the first failing phase: once the
\* managed-instance phase has failed Run has returned that phase's wrapped error
\* and no activation is listed or deleted; an error of the activation phase is
\* returned only by a run whose managed-instance phase succeeded.
C8_StopsAtFirstFailure ==
    /\ (sErr # NoError /\ sErr[1] = "cleaning up SSM managed instances")
        => (sPc = "done" /\ ActivationCalls = {})
    /\ (sErr # NoError /\ sErr[1] = "cleaning up SSM hybrid activations")
        => (sPc = "done" /\ ActivationCalls # {})
    /\ (sPc = "done" /\ sErr # NoError)
        => sErr[1] \in {"cleaning up SSM managed instances",
                        "cleaning up SSM hybrid activations"}

\* C8 witness: the managed-instance phase failed in a real run while an
\* activation was eligible, and Run returned without touching the activations.
C8_Witness ==
    /\ sPc = "done"
    /\ ~sInput.DryRun
    /\ sErr # NoError
    /\ sErr[1] = "cleaning up SSM managed instances"
    /\ sErr[2] = "deleting managed instances"
    /\ \E id \in sActive : ActivationEligible(id)
    /\ ActivationCalls = {}

(***************************************************************************)
(* Claims about the VPC teardown (checked under VpcSpec).                  *)
(***************************************************************************)
\* The teardown step an EC2 operation belongs to, by the message DeleteVPCs
\* wraps that step's error in.
StepNameOf(op) ==
    CASE op \in {"DescribeInternetGateways", "DetachInternetGateway",
                 "DeleteInternetGateway"} -> "deleting internet gateways"
      [] op \in {"DescribeSubnets", "DeleteSubnet"} -> "deleting subnets"
      [] op \in {"DescribeRouteTables", "DisassociateRouteTable",
                 "DeleteRouteTable"} -> "deleting route tables"
      [] op \in {"DescribeSecurityGroups", "RevokeSecurityGroupIngress",
                 "RevokeSecurityGroupEgress", "DeleteSecurityGroup"} ->
             "deleting security groups"
      [] op = "DeleteVpc" -> "deleting VPC"

\* The place of a step in the order the teardown is to follow.
ClaimedOrder ==
    << "deleting internet gateways", "deleting subnets", "deleting route tables",
       "deleting security groups", "deleting VPC" >>

RankOf(op) == CHOOSE k \in 1..Len(ClaimedOrder) : ClaimedOrder[k] = StepNameOf(op)

RevokeOps == {"RevokeSecurityGroupIngress", "RevokeSecurityGroupEgress"}

\* What a step is there to remove is gone from VPC v.
StepCompleted(v, k) ==
    CASE k = 1 -> \A i \in ItemIDs : vIgw[v][i] = "deleted"
      [] k = 2 -> vSubnet[v] = {}
      [] k = 3 -> vRt[v] = {}
      [] k = 4 -> vSg[v] = {}
      [] OTHER -> ~vVpc[v]

\* C9: for each VPC the calls follow the order internet gateways (each one
\* detached, then deleted), subnets, non-main route tables, non-default
\* security groups, VPC: whenever a call has been issued, the earlier calls
\* for its VPC belong to the same or an earlier step, every earlier step of
\* that VPC has made its describe call, all its calls but tolerated revokes
\* succeeded and what it removes is gone; no call follows DeleteVpc for its
\* VPC. (The log only grows, so the latest call of every reachable state
\* covers every call.)
C9_StrictStepOrder ==
    vLog # << >> =>
        LET j == Len(vLog)
            e == vLog[j]
            rank == RankOf(e.op)
        IN  /\ \A i \in 1..(j - 1) :
                   vLog[i].vpc = e.vpc =>
                       /\ RankOf(vLog[i].op) <= rank
                       /\ vLog[i].op # "DeleteVpc"
                       /\ RankOf(vLog[i].op) < rank =>
                              vLog[i].ok \/ vLog[i].op \in RevokeOps
            /\ \A k \in 1..(rank - 1) :
                   /\ StepCompleted(e.vpc, k)
                   /\ \E i \in 1..(j - 1) :
                          /\ vLog[i].vpc = e.vpc
                          /\ RankOf(vLog[i].op) = k
                          /\ vLog[i].ok
            /\ e.op = "DeleteInternetGateway" =>
                   /\ j > 1
                   /\ vLog[j - 1] = [e EXCEPT !.op = "DetachInternetGateway", !.ok = TRUE]

\* Both VPCs were torn down, each through calls of all five steps.
C9_Witness ==
    /\ vPc = "done"
    /\ vErr = NoError
    /\ \A v \in VpcIDs :
           \A op \in {"DeleteInternetGateway", "DeleteSubnet", "DisassociateRouteTable",
                      "DeleteRouteTable", "RevokeSecurityGroupIngress",
                      "DeleteSecurityGroup", "DeleteVpc"} :
               \E i \in 1..Len(vLog) :
                   vLog[i].vpc = v /\ vLog[i].op = op /\ vLog[i].ok

\* C10: when a describe, detach, disassociate or delete call fails, it is the
\* last call DeleteVPCs makes: no later call for that VPC, no DeleteVpc for it
\* (unless DeleteVpc is the call that failed), and DeleteVPCs has returned an
\* error wrapped in the message of the step the call belongs to.
C10_FailureAbortsTeardown ==
    \A i \in 1..Len(vLog) :
        (~vLog[i].ok /\ vLog[i].op \notin RevokeOps) =>
            /\ i = Len(vLog)
            /\ \A j \in 1..(i - 1) :
                   vLog[j].vpc = vLog[i].vpc => vLog[j].op # "DeleteVpc"
            /\ vPc = "done"
            /\ vErr # NoError
            /\ vErr[1] = StepNameOf(vLog[i].op)
            /\ vErr[Len(vErr)] = ApiError[1]

\* The second VPC's route table could not be deleted, after the first VPC
\* was torn down.
C10_Witness ==
    /\ vLog # << >>
    /\ vLog[Len(vLog)] = [vpc |-> NumVpcs, op |-> "DeleteRouteTable", id |-> 1,
                          sub |-> 0, ok |-> FALSE]
    /\ \E i \in 1..Len(vLog) : vLog[i].op = "DeleteVpc" /\ vLog[i].ok
    /\ vPc = "done"
    /\ vErr[1] = "deleting route tables"

(***************************************************************************)
(* Claims about invoking the VPC teardown again (checked under             *)
(* VpcRerunSpec).                                                          *)
(***************************************************************************)
DescribeOps ==
    {"DescribeInternetGateways", "DescribeSubnets", "DescribeRouteTables",
     "DescribeSecurityGroups"}

\* This invocation found every VPC of vpcIDs deleted by an earlier one.
RerunOnDeletedVpcs ==
    /\ vRun > 1
    /\ vVpcIDs # << >>
    /\ \A k \in 1..Len(vVpcIDs) : ~vVpc[vVpcIDs[k]]
    /\ \A i \in 1..Len(vLog) : ~(vLog[i].op = "DeleteVpc" /\ vLog[i].ok)

\* C11: an invocation of DeleteVPCs for VPCs an earlier invocation deleted
\* completely, whose describe calls all succeed, returns no error: the final
\* delete-VPC step succeeds too.
C11_RerunOnDeletedVpcSucceeds ==
    ( /\ RerunOnDeletedVpcs
      /\ vPc = "done"
      /\ \A i \in 1..Len(vLog) : vLog[i].op \in DescribeOps => vLog[i].ok )
    => vErr = NoError

\* What the second invocation does instead: its describe calls find nothing,
\* DeleteVpc is refused for the first VPC and DeleteVPCs returns that error.
C11_RerunFailsAtDeleteVpc ==
    ( /\ RerunOnDeletedVpcs
      /\ vPc = "done"
      /\ \A i \in 1..Len(vLog) : vLog[i].op \in DescribeOps => vLog[i].ok )
    => /\ vErr = Wrap("deleting VPC", Wrap("deleting VPC", ApiError))
       /\ vLog[Len(vLog)] = [vpc |-> vVpcIDs[1], op |-> "DeleteVpc", id |-> vVpcIDs[1],
                             sub |-> 0, ok |-> FALSE]
       /\ \A i \in 1..(Len(vLog) - 1) : vLog[i].op \in DescribeOps

\* A second invocation has returned after finding both VPCs already deleted.
C11_Witness ==
    /\ RerunOnDeletedVpcs
    /\ vPc = "done"
    /\ \A i \in 1..Len(vLog) : vLog[i].op \in DescribeOps => vLog[i].ok

(***************************************************************************)
(* Claims about the Delete<X> functions (checked under DeleteSpec).        *)
(***************************************************************************)
\* The responses the API calls of run r received, in order.
ResponsesOf(r) == SelectSeq(dLog, LAMBDA e : e.run = r)

LastResponseOf(r) == ResponsesOf(r)[Len(ResponsesOf(r))].code

AllRunsDone == \A r \in Runs : dPc[r] = "done"

\* No call was answered with an error other than "the resource is gone".
OnlyGoneErrors == \A i \in 1..Len(dLog) : dLog[i].code \in {"ok", NotFoundError(dKind)}

\* The runs called Delete<X> one after the other, each returning before the next.
InARow == AllRunsDone /\ ~dOverlap

SsmDeletes == {"DeleteActivation", "DeleteManagedInstance", "DeleteParameter"}

RolesAnywhereDeletes ==
    {"DeleteProfile/73", "DeleteTrustAnchor/136", "DeleteProfile/229", "DeleteTrustAnchor/287"}

\* C12: DeleteActivation, DeleteManagedInstance and DeleteParameter return nil
\* when the call succeeds and when it reports the resource gone
\* (InvalidActivation, InvalidInstanceId, ParameterNotFound), and return every
\* other error wrapped; called twice in a row they succeed both times.
C12_SsmDeletesIdempotent ==
    dKind \in SsmDeletes =>
        /\ \A r \in Runs :
               dPc[r] = "done" =>
                   IF LastResponseOf(r) \in {"ok", NotFoundError(dKind)}
                   THEN dErr[r] = NoError
                   ELSE dErr[r] = <<DeleteErrorMessage(dKind), LastResponseOf(r)>>
        /\ (InARow /\ OnlyGoneErrors) => \A r \in Runs : dErr[r] = NoError

\* DeleteActivation was called twice in a row; the second call was answered
\* InvalidActivation and returned nil.
C12_Witness ==
    /\ dKind = "DeleteActivation"
    /\ InARow
    /\ \E r \in Runs : LastResponseOf(r) = "ok" /\ dErr[r] = NoError
    /\ \E r \in Runs : LastResponseOf(r) = "InvalidActivation" /\ dErr[r] = NoError

\* C13: DeleteProfile and DeleteTrustAnchor of RolesAnywhereCleaner return nil
\* when the service reports resource-not-found, so that two calls in a row
\* succeed both times.
C13_RolesAnywhereDeletesIdempotent ==
    dKind \in RolesAnywhereDeletes =>
        /\ \A r \in Runs :
               (dPc[r] = "done" /\ LastResponseOf(r) = "ResourceNotFoundException") =>
                   dErr[r] = NoError
        /\ (InARow /\ OnlyGoneErrors) => \A r \in Runs : dErr[r] = NoError

\* DeleteProfile was called twice in a row and the second call was answered
\* resource-not-found.
C13_Witness ==
    /\ dKind \in {"DeleteProfile/73", "DeleteProfile/229"}
    /\ InARow
    /\ \E r \in Runs : LastResponseOf(r) = "ok"
    /\ \E r \in Runs : LastResponseOf(r) = "ResourceNotFoundException"

\* C14: DeleteRole returns nil whenever a call of either of its steps (listing
\* the instance profiles and removing the role from them; deleting the role)
\* is answered "no such entity", and two calls in a row succeed both times.
C14_DeleteRoleNoSuchEntityIsClean ==
    dKind = "DeleteRole" =>
        /\ \A r \in Runs :
               (dPc[r] = "done" /\ LastResponseOf(r) = "NoSuchEntityException") =>
                   dErr[r] = NoError
        /\ (InARow /\ OnlyGoneErrors) => \A r \in Runs : dErr[r] = NoError

\* A DeleteRole call has returned after a "no such entity" answer.
C14_Witness ==
    /\ dKind = "DeleteRole"
    /\ \E r \in Runs : dPc[r] = "done" /\ LastResponseOf(r) = "NoSuchEntityException"

\* C15: when two cleanup runs delete the same resource concurrently and the
\* service answers nothing worse than "the resource is gone", both Delete<X>
\* calls return nil under every interleaving, for every Delete<X>.
C15_ConcurrentDeletesBothSucceed ==
    (AllRunsDone /\ OnlyGoneErrors) => \A r \in Runs : dErr[r] = NoError

\* Two overlapping runs have both returned, one of them after the resource
\* was reported gone.
C15_Witness ==
    /\ AllRunsDone
    /\ dOverlap
    /\ OnlyGoneErrors
    /\ \E i \in 1..Len(dLog) : dLog[i].code = NotFoundError(dKind)

(***************************************************************************)
(* Further claims about the Sweeper (checked under SweeperSpec).           *)
(***************************************************************************)
\* C16: when the tag lookup or a page of a listing fails, the List operation
\* returns the error and no ids, whatever the earlier pages gave, and the phase
\* that called it makes no delete call.
C16_FailedListingReturnsNoIds ==
    /\ (sErr # NoError /\ sErr[2] = "listing managed instances") =>
           /\ sPc = "done"
           /\ sIds = << >>
           /\ sErr = <<"cleaning up SSM managed instances", "listing managed instances",
                       "listing SSM managed instances">> \o ApiError
           /\ DeleteCalls = {}
    /\ (sErr # NoError /\ sErr[2] = "listing activations") =>
           /\ sPc = "done"
           /\ sIds = << >>
           /\ sErr = <<"cleaning up SSM hybrid activations", "listing activations",
                       "listing SSM activations">> \o ApiError
           /\ CallsOf("DeleteActivation") = {}

\* The managed-instance listing failed on a later page, after a page that
\* held an instance to delete.
C16_Witness ==
    /\ sErr # NoError
    /\ sErr[2] = "listing managed instances"
    /\ ~sInput.DryRun
    /\ \E i \in CallsOf("DescribeInstanceInformation") : sLog[i].arg > 0
    /\ InstanceEligible(DescribeInstanceInformation[1])

InstanceCalls ==
    CallsOf("GetResources") \cup CallsOf("DescribeInstanceInformation")
    \cup CallsOf("DeregisterManagedInstance")

\* C18: Run handles the managed instances strictly before the activations:
\* every call that lists or deletes an activation comes after every call of
\* the managed-instance phase, and when the first of them is made the
\* managed-instance listing has made its calls and (unless DryRun) every
\* instance it selected has had its deregistration call.
C18_InstancesBeforeActivations ==
    /\ \A a \in ActivationCalls : \A i \in InstanceCalls : i < a
    /\ ActivationCalls # {} =>
           /\ sPc \in {"act_list", "act_delete", "done"}
           /\ CallsOf("GetResources") # {}
           /\ CallsOf("DescribeInstanceInformation") # {}
           /\ ~sInput.DryRun =>
                  \A id \in InstanceIDs :
                      InstanceEligible(id) =>
                          \E i \in CallsOf("DeregisterManagedInstance") : sLog[i].arg = id
    /\ sPc \in {"act_list", "act_delete"} => sErr = NoError

\* An activation was deleted after two managed instances were deregistered.
C18_Witness ==
    /\ CallsOf("DeleteActivation") # {}
    /\ Cardinality(CallsOf("DeregisterManagedInstance")) > 1

(***************************************************************************)
(* Claims about the bulk listings (checked under ListSpec).                *)
(***************************************************************************)
GetCalls == { i \in 1..Len(lLog) : lLog[i].op # "GetResources" }

\* The candidates whose call was answered with the resource, in loop order,
\* that pass the filter.
RECURSIVE ExpectedIds(_)
ExpectedIds(i) ==
    IF i > Len(lLog) THEN << >>
    ELSE (IF /\ lLog[i].code = "ok"
             /\ lLog[i].op # "GetResources"
             /\ CandidateSelected(lKind, lResources[lLog[i].id], lInput)
          THEN <<lLog[i].id>> ELSE << >>)
         \o ExpectedIds(i + 1)

\* C17: a candidate the per-candidate Get/Describe call reports as not found
\* is skipped: the loop goes on to the next candidate and, when no call fails
\* otherwise, the listing returns nil and the ids of the selected candidates
\* that were found; any other error of the call is the last call of the
\* listing, which returns that error wrapped and no ids.
C17_NotFoundCandidateSkipped ==
    /\ \A i \in GetCalls :
           /\ lLog[i].code = CandidateNotFound(lKind) =>
                  /\ lLog[i].id \notin { lOut[k] : k \in 1..Len(lOut) }
                  /\ IF i - 1 < Len(lOrder)
                     THEN lPc = "get" => lPos > i - 1
                     ELSE lPc = "done" /\ lErr = NoError
           /\ lLog[i].code \notin {"ok", "no stacks", CandidateNotFound(lKind)} =>
                  /\ i = Len(lLog)
                  /\ lPc = "done"
                  /\ lErr = <<GetErrorMessage(lKind), lLog[i].code>>
                  /\ lOut = << >>
    /\ ( /\ lPc = "done"
         /\ \A i \in 1..Len(lLog) :
                lLog[i].code \in {"ok", "no stacks", CandidateNotFound(lKind)} )
       => /\ lErr = NoError
          /\ Len(lLog) = 1 + Len(lOrder)
          /\ lOut = ExpectedIds(1)

\* A listing skipped its first candidate as not found, selected the second
\* and returned it.
C17_Witness ==
    /\ lPc = "done"
    /\ lErr = NoError
    /\ Len(lLog) = 1 + NumCandidates
    /\ lLog[2].code = CandidateNotFound(lKind)
    /\ lOut = <<lLog[Len(lLog)].id>>

(***************************************************************************)
(* Claims about the kubelet certificate check (checked under CertSpec).    *)
(***************************************************************************)
CertParses == cFile.pem /\ cFile.der

CertChains == cFile.Issuer \in { cCA[i] : i \in 1..Len(cCA) }

CertAllGood ==
    /\ cFile.readable
    /\ CertParses
    /\ cFile.NotBefore <= Now
    /\ Now <= cFile.NotAfter
    /\ CertChains

\* The first failing check, in the order of the five checks named.
FirstOfFiveChecks ==
    IF ~cFile.readable THEN "failed to read kubelet server certificate"
    ELSE IF ~CertParses THEN "failed to parse kubelet server certificate"
    ELSE IF Now < cFile.NotBefore THEN "kubelet server certificate is not yet valid"
    ELSE IF Now > cFile.NotAfter THEN "kubelet server certificate has expired"
    ELSE "kubelet server certificate is not signed by the cluster CA"

\* ... and with the check of the configured cluster CA itself.
FirstOfSixChecks ==
    IF ~cFile.readable THEN "failed to read kubelet server certificate"
    ELSE IF ~CertParses THEN "failed to parse kubelet server certificate"
    ELSE IF Now < cFile.NotBefore THEN "kubelet server certificate is not yet valid"
    ELSE IF Now > cFile.NotAfter THEN "kubelet server certificate has expired"
    ELSE IF \A i \in 1..Len(cCA) : cCA[i] = "garbage"
    THEN "failed to parse cluster CA certificate"
    ELSE "kubelet server certificate is not signed by the cluster CA"

InformerSawExactly(err) ==
    cLog = << [call |-> "Starting", err |-> NoError], [call |-> "Done", err |-> err] >>

\* C19: Run calls informer.Starting, then informer.Done with exactly the error
\* it returns; the error is nil iff the file is readable, parses, now is within
\* [NotBefore, NotAfter] and the certificate chains to the cluster CA, and
\* otherwise is the error of the first failing check among: unreadable file,
\* unparsable certificate, not yet valid, expired, not signed by the cluster CA.
C19_FirstOfFiveChecksReported ==
    cPc = "returned" =>
        /\ InformerSawExactly(cRet)
        /\ cRet = NoError <=> CertAllGood
        /\ cRet # NoError => cRet[1] = FirstOfFiveChecks

\* C19 (amended): the same with six checks in the order: unreadable file,
\* unparsable certificate, not yet valid, expired, unparsable cluster CA, not
\* signed by the cluster CA.
C19_FirstOfSixChecksReported ==
    /\ cPc = "returned" =>
           /\ InformerSawExactly(cRet)
           /\ cRet = NoError <=> CertAllGood
           /\ cRet # NoError => cRet[1] = FirstOfSixChecks
    /\ cLog # << >> => cLog[1].call = "Starting"
    /\ cPc # "returned" => \A i \in 1..Len(cLog) : cLog[i].call # "Done"

\* Run has returned the cluster CA error for a certificate that passed the
\* four checks before it.
C19_Witness ==
    /\ cPc = "returned"
    /\ cFile.readable /\ CertParses
    /\ cFile.NotBefore = Now /\ cFile.NotAfter = Now
    /\ cRet = <<"failed to parse cluster CA certificate">>
    /\ InformerSawExactly(cRet)

(***************************************************************************)
(* Claims about FlakyCode.It (checked under FlakySpec).                    *)
(***************************************************************************)
FlakyEvents(ev) == { i \in 1..Len(kLog) : kLog[i].ev = ev }

ItIsOver == kPc \in {"returned", "failed"}

CleanupRuns(attempt, id) ==
    { i \in FlakyEvents("cleanup") : kLog[i].attempt = attempt /\ kLog[i].id = id }

StillWithGinkgo == { kGlobal[i] : i \in 1..Len(kGlobal) }

\* C21: after an attempt failed retryably every cleanup registered through
\* that attempt's DeferCleanup has run, in reverse registration order, before
\* the next attempt starts; after a successful attempt It runs none of them
\* (they stay registered for the end of the test); and no registered cleanup
\* executes more than once, although ginkgo calls each again at the end.
C21_CleanupsOfFailedAttemptOnce ==
    /\ \A b \in FlakyEvents("body") : \A r \in FlakyEvents("DeferCleanup") :
           kLog[r].attempt + 1 = kLog[b].attempt =>
               /\ \E c \in CleanupRuns(kLog[r].attempt, kLog[r].id) : r < c /\ c < b
               /\ \A q \in FlakyEvents("DeferCleanup") :
                      kLog[q].attempt = kLog[r].attempt /\ q < r =>
                          \A c \in CleanupRuns(kLog[r].attempt, kLog[r].id) :
                              \A d \in CleanupRuns(kLog[q].attempt, kLog[q].id) : c < d
    /\ ItIsOver => \A c \in StillWithGinkgo : c[1] = kAttempt => c \notin kRan
    /\ \A r \in FlakyEvents("DeferCleanup") :
           Cardinality(CleanupRuns(kLog[r].attempt, kLog[r].id)) <= 1
    /\ \A c \in FlakyEvents("cleanup") :
           \E r \in FlakyEvents("DeferCleanup") :
               r < c /\ kLog[r].attempt = kLog[c].attempt /\ kLog[r].id = kLog[c].id

\* It succeeded on its second attempt; the first attempt's two cleanups ran
\* before the retry, and ginkgo has gone through everything registered.
C21_Witness ==
    /\ kPc = "returned"
    /\ kAttempt = 1
    /\ kGlobal = << >>
    /\ \A a \in {0, 1} : \A id \in 1..MaxCleanups : Cardinality(CleanupRuns(a, id)) = 1
    /\ Cardinality(FlakyEvents("cleanup skipped")) = MaxCleanups

(***************************************************************************)
(* Claims about TestCleanup (checked under TestCleanupSpec).               *)
(***************************************************************************)
ExecutionsOf(f) == { i \in 1..Len(tLog) : tLog[i].f = f }

\* The spec that registered f is over, cleanups included, and it failed.
OwnerFailed(f) ==
    /\ tOwner[f] < tSpec \/ tPc \in {"defer_all", "done"}
    /\ tOutcome[tOwner[f]]

RunCalls(r, op) == { i \in 1..Len(dLog) : dLog[i].run = r /\ dLog[i].op = op }

\* C23: a run of IAMCleaner.DeleteRole issues the IAM DeleteRole call only
\* after it removed the role successfully from every instance profile that
\* ListInstanceProfilesForRole returned to it; if a removal fails the run
\* returns that error, makes no further call and does not delete the role.
C23_RoleDeletedAfterAllRemovals ==
    \A r \in Runs :
        /\ \A i \in RunCalls(r, "DeleteRole") :
               /\ \E j \in RunCalls(r, "ListInstanceProfilesForRole") :
                      j < i /\ dLog[j].code = "ok"
               /\ \A j \in RunCalls(r, "RemoveRoleFromInstanceProfile") :
                      j < i /\ dLog[j].code = "ok"
               /\ Cardinality(RunCalls(r, "RemoveRoleFromInstanceProfile")) = Len(dList[r])
               /\ \A k \in 1..Len(dList[r]) : dList[r][k] \notin dProfiles
        /\ \A j \in RunCalls(r, "RemoveRoleFromInstanceProfile") :
               dLog[j].code # "ok" =>
                   /\ dPc[r] = "done"
                   /\ dErr[r] = Wrap("removing role from instance profile", <<dLog[j].code>>)
                   /\ RunCalls(r, "DeleteRole") = {}
                   /\ \A i \in 1..Len(dLog) : i > j => dLog[i].run # r

\* A single run removed the role from the first of two instance profiles,
\* failed on the second and returned, the role still being there.
C23_Witness ==
    /\ ~dOverlap
    /\ \E r \in Runs :
           /\ dPc[r] = "done"
           /\ Len(dList[r]) = MaxInstanceProfiles
           /\ dPos[r] = MaxInstanceProfiles
           /\ dErr[r] = Wrap("removing role from instance profile", <<OtherError>>)
           /\ dExists
           /\ Cardinality(dProfiles) = 1

(***************************************************************************)
(* Further claims about the VPC teardown (checked under VpcSpec).          *)
(***************************************************************************)
RouteTableOps == {"DisassociateRouteTable", "DeleteRouteTable"}

SecurityGroupOps ==
    {"RevokeSecurityGroupIngress", "RevokeSecurityGroupEgress", "DeleteSecurityGroup"}

SucceededCalls(v, op) ==
    { i \in 1..Len(vLog) : vLog[i].vpc = v /\ vLog[i].op = op /\ vLog[i].ok }

\* C24: DeleteVPCs never calls DisassociateRouteTable or DeleteRouteTable for
\* the main route table of a VPC and never revokes rules of or deletes its
\* "default" security group, which stay as they were while the VPC exists;
\* when DeleteVPCs returns nil every other route table and security group of
\* the VPCs is deleted.
C24_MainAndDefaultUntouched ==
    /\ \A i \in 1..Len(vLog) :
           /\ vLog[i].op \in RouteTableOps => vLog[i].id # MainID
           /\ vLog[i].op \in SecurityGroupOps => vLog[i].id # DefaultID
    /\ \A v \in VpcIDs :
           vVpc[v] => /\ vRtAssoc[v][MainID] = {MainID}
                      /\ DefaultID \in vSgIn[v] \cap vSgOut[v]
    /\ vPc = "done" /\ vErr = NoError =>
           \A k \in 1..Len(vVpcIDs) : vRt[vVpcIDs[k]] = {} /\ vSg[vVpcIDs[k]] = {}

\* A teardown succeeded that deleted a route table with an association and a
\* security group with rules in each VPC.
C24_Witness ==
    /\ vPc = "done" /\ vErr = NoError
    /\ Len(vVpcIDs) = NumVpcs
    /\ \A v \in VpcIDs :
           /\ SucceededCalls(v, "DisassociateRouteTable") # {}
           /\ Cardinality(SucceededCalls(v, "DeleteRouteTable")) = MaxPerStep
           /\ SucceededCalls(v, "RevokeSecurityGroupIngress") # {}
           /\ Cardinality(SucceededCalls(v, "DeleteSecurityGroup")) = MaxPerStep
           /\ Cardinality(SucceededCalls(v, "DescribeRouteTables")) = 2

(***************************************************************************)
(* Claims about the security-group step (checked under VpcGroupsSpec).     *)
(***************************************************************************)
FailedCalls(v, op, id) ==
    { i \in 1..Len(vLog) :
        vLog[i].vpc = v /\ vLog[i].op = op /\ vLog[i].id = id /\ ~vLog[i].ok }

CallsOfOp(v, op) == { i \in 1..Len(vLog) : vLog[i].vpc = v /\ vLog[i].op = op }

\* C25: a failed revocation of ingress or egress rules does not abort the
\* teardown; the rules of the remaining groups are still revoked and
\* DeleteSecurityGroup is attempted for every non-default group; the step
\* fails only by a failed describe or DeleteSecurityGroup; and every revocation
\* of every group is issued before the first DeleteSecurityGroup.
C25_RevokeErrorsTolerated ==
    /\ vLog # << >> /\ vLog[Len(vLog)].op \in RevokeOps =>
           /\ vPc = "calls" /\ vErr = NoError
           /\ CallsOfOp(vLog[Len(vLog)].vpc, "DeleteSecurityGroup") = {}
    /\ \A v \in VpcIDs :
           CallsOfOp(v, "DeleteSecurityGroup") # {} =>
               \A sg \in vSg[v] :
                   /\ sg \in vSgIn[v] => FailedCalls(v, "RevokeSecurityGroupIngress", sg) # {}
                   /\ sg \in vSgOut[v] => FailedCalls(v, "RevokeSecurityGroupEgress", sg) # {}
    /\ \A v \in VpcIDs : CallsOfOp(v, "DeleteVpc") # {} => vSg[v] = {}
    /\ vErr # NoError /\ vErr[1] = "deleting security groups" =>
           /\ vLog[Len(vLog)].op \in {"DescribeSecurityGroups", "DeleteSecurityGroup"}
           /\ ~vLog[Len(vLog)].ok

\* The ingress revocation of the first group failed; the second group's rules
\* were revoked all the same, every group was deleted and so was the VPC.
C25_Witness ==
    /\ vPc = "done" /\ vErr = NoError
    /\ FailedCalls(1, "RevokeSecurityGroupIngress", 1) # {}
    /\ \E i \in SucceededCalls(1, "RevokeSecurityGroupEgress") : vLog[i].id = NumGroups
    /\ Cardinality(SucceededCalls(1, "DeleteSecurityGroup")) = NumGroups
    /\ ~vVpc[1]

(***************************************************************************)
(* Claims about repeated teardowns (checked under VpcRerunSpec).           *)
(***************************************************************************)
\* C27: when DeleteVPCs, invoked again after a failure, returns nil, every
\* internet gateway that was attached to one of the VPCs has been deleted:
\* none is left detached and undeleted.
C27_NoGatewayLeftDetached ==
    vPc = "done" /\ vErr = NoError =>
        \A k \in 1..Len(vVpcIDs) : \A i \in ItemIDs : vIgw[vVpcIDs[k]][i] = "deleted"

\* The second invocation returned nil and deleted the VPCs, and a gateway
\* that the first invocation detached still exists.
C27_Witness ==
    /\ vPc = "done" /\ vErr = NoError
    /\ vRun = 2
    /\ Len(vVpcIDs) = NumVpcs
    /\ \A v \in VpcIDs : ~vVpc[v]
    /\ \E i \in ItemIDs : vIgw[1][i] = "detached"

(***************************************************************************)
(* Claims about the polling waits (checked under PollSpec).                *)
(***************************************************************************)
AbortedWithApiError ==
    pPc = "returned" /\ pErr # NoError /\ pErr[Len(pErr)] = ApiError[1]

\* C26: every invocation of a polling wait starts with a consecutive-error
\* count of zero; the wait goes on polling while no more than 3 API calls in a
\* row have failed, aborts with the API error only after more than 3 failed in
\* a row, and the count is zero again after any call that succeeded.
C26_ErrorBudgetPerInvocation ==
    /\ pPc = "poll" /\ pPolls = 0 => pConsecutiveErrors = 0
    /\ AbortedWithApiError =>
           /\ pTrailingFailures > ErrorBudget
           /\ pErr = WaitError(pKind, Wrap(ConditionMessage(pKind), ApiError))
    /\ pTrailingFailures = 0 => pConsecutiveErrors = 0
    /\ pConsecutiveErrors <= pTrailingFailures
    /\ pKind # "WaitForHybridNodeToBeReady" =>
           /\ pConsecutiveErrors = pTrailingFailures
           /\ pTrailingFailures > ErrorBudget => AbortedWithApiError

\* A second invocation, started after the first one aborted, polled through
\* three failed calls and aborted at the fourth.
C26_Witness ==
    /\ pInvocation = 2
    /\ AbortedWithApiError
    /\ pPolls = ErrorBudget + 2
    /\ pTrailingFailures = ErrorBudget + 1

(***************************************************************************)
(* Claims about waitForManagedInstanceUnregistered (UnregisterSpec).       *)
(***************************************************************************)
\* The goroutine is at a send that nothing will ever receive.
GoroutineStuck == uMain = "returned" /\ uGo \in {"send_status", "send_err"}

\* C28: the polling goroutine terminates in every execution, also when the
\* function has returned on the timeout or the caller's context (it is never
\* left blocked in a send on statusCh or errCh); and the function returns nil
\* only if a describe call returned an empty instance list.
C28_GoroutineNeverStuck ==
    /\ ~GoroutineStuck
    /\ uMain = "returned" /\ uRet = NoError => uSawEmpty

\* The function returned on ctx.Done() and the goroutine is blocked sending
\* the error of a describe call on errCh.
C28_Witness ==
    /\ uMain = "returned"
    /\ uRet = <<"timed out waiting for instance to unregister">>
    /\ uGo = "send_err"

(***************************************************************************)
(* Claims about CleanNode.Run (checked under CleanNodeSpec).               *)
(***************************************************************************)
\* The order of the steps as claimed, for the operating system of the node.
ClaimedSteps ==
    << "WaitForNode", "CordonNode", "DrainNode",
       IF nOS[1] \in {"bottlerocket", "br"} THEN "StopKubelet" ELSE "RunNodeadmUninstall",
       "WaitForHybridNodeToBeNotReady", "DeleteNode", "VerifyUninstall" >>

StepsInClaimedOrder ==
    /\ Len(nLog) <= Len(ClaimedSteps)
    /\ \A i \in 1..Len(nLog) : nLog[i].step = ClaimedSteps[i]

StopsAtFirstFailure ==
    \A i \in 1..Len(nLog) : ~nLog[i].ok => i = Len(nLog) /\ nPc = "returned"

NilOnlyIfAllSucceeded ==
    nPc = "returned" /\ nRet = NoError =>
        Len(nLog) = Len(ClaimedSteps) /\ \A i \in 1..Len(nLog) : nLog[i].ok

\* C29: CleanNode.Run executes wait-for-node, cordon, drain, uninstall (stop
\* kubelet on bottlerocket), wait-for-not-ready, delete node, verify uninstall
\* in this order, stops at the first failing step, and returns nil only if
\* every step, the final VerifyUninstall included, succeeded.
C29_NilOnlyIfEveryStepSucceeded ==
    /\ StepsInClaimedOrder
    /\ StopsAtFirstFailure
    /\ NilOnlyIfAllSucceeded

\* Run returned nil although VerifyUninstall, its last step, failed.
C29_Witness ==
    /\ nPc = "returned"
    /\ nRet = NoError
    /\ Len(nLog) = 7
    /\ nLog[7] = [step |-> "VerifyUninstall", ok |-> FALSE]

(***************************************************************************)
(* Claims about extractClusterName (checked under ExtractSpec).            *)
(***************************************************************************)
ColonsIn(s) == { i \in 1..Len(s) : s[i] = ":" }

\* The start and the end of the sixth colon-separated field of a string that
\* has five colons or more.
SixthFieldStart(s) ==
    1 + CHOOSE i \in ColonsIn(s) : Cardinality({ j \in ColonsIn(s) : j < i }) = 4

SixthFieldEnd(s) ==
    IF \E i \in ColonsIn(s) : i >= SixthFieldStart(s)
    THEN (CHOOSE i \in ColonsIn(s) :
            i >= SixthFieldStart(s) /\ \A j \in ColonsIn(s) : j >= SixthFieldStart(s) => i <= j) - 1
    ELSE Len(s)

SlashesInSixthField(s) ==
    { i \in SixthFieldStart(s)..SixthFieldEnd(s) : s[i] = "/" }

\* arn:aws:eks:<region>:<account>:cluster/<name>: six fields, one '/' in the
\* sixth.
WellFormedArn(s) ==
    /\ Cardinality(ColonsIn(s)) = 5
    /\ Cardinality(SlashesInSixthField(s)) = 1

\* Fewer than six colon-separated fields, or a sixth field without '/'.
MalformedArn(s) ==
    \/ Cardinality(ColonsIn(s)) < 5
    \/ /\ Cardinality(ColonsIn(s)) >= 5
       /\ SlashesInSixthField(s) = {}

ExtractOver == ePc \in {"returned", "panicked"}

\* C30: extractClusterName returns the text after '/' in the sixth
\* colon-separated field of a well-formed EKS cluster ARN, and for every
\* malformed ARN (fewer than six colon-separated fields, or a sixth field
\* containing no '/') it returns the empty string and does not fail with an
\* index out of range.
C30_MalformedArnGivesEmptyString ==
    ExtractOver =>
        /\ WellFormedArn(eArn) =>
              /\ ePc = "returned"
              /\ eRet = SubSeq(eArn, 1 + CHOOSE i \in SlashesInSixthField(eArn) : TRUE, Len(eArn))
        /\ MalformedArn(eArn) =>
              /\ ePc = "returned"
              /\ eRet = << >>

\* The call panicked on an ARN that has six fields and no '/' in the sixth.
C30_Witness ==
    /\ ePc = "panicked"
    /\ Cardinality(ColonsIn(eArn)) >= 5
    /\ SlashesInSixthField(eArn) = {}

====
